---- MODULE Spec2Model ----
(***************************************************************************)
(* Article discovery and de-duplication of adu_rss: the seen_articles      *)
(* table behind storage/article_tracker.py (ArticleTracker) and the        *)
(* fetch_articles runs of the two custom scrapers                          *)
(* (operators/custom_scrapers/japan_architects.py and landezine.py).       *)
(*                                                                         *)
(* Text (URLs, headlines, link texts) is a sequence of one-character       *)
(* strings.  Time is counted in ticks, TicksPerDay ticks to a day.         *)
(***************************************************************************)
EXTENDS Integers, Sequences, FiniteSets, TLC

VARIABLES
    seen_articles,  \* rows of the seen_articles table
    now,            \* the clock (datetime.now / NOW()), in ticks
    pool,           \* ArticleTracker.pool is not None
    initialized,    \* ArticleTracker._initialized
    ret,            \* outcome of the last ArticleTracker call
    listing,        \* what each site shows: listing[a] is the page of adapter a
    pc,             \* pc[p]: where run p of fetch_articles stands
    run,            \* run[p]: the local variables of run p
    history,        \* the runs that returned, oldest first
    faults,         \* number of injected transient failures so far
    nav,            \* the call of _navigate_with_retry under way
    call,           \* the last application of a function of the scrapers
    task,           \* task[k]: the mark_as_seen call of concurrent task k
    cli,            \* the process of main.py: its argument, its pipeline
    res             \* the browser objects of one call of fetch_articles

vars == <<seen_articles, now, pool, initialized, ret, listing,
          pc, run, history, faults, nav, call, task, cli, res>>

mainVars  == <<cli, res>>

storeVars == <<seen_articles, now, pool, initialized, ret>>
runVars   == <<listing, pc, run, history, faults>>

(***************************************************************************)
(* Bounds of the model.                                                    *)
(***************************************************************************)
TicksPerDay == 2    \* resolution of the clock
MaxTicks    == 1    \* how often the clock advances in one behaviour
MaxRuns     == 2    \* how many runs of fetch_articles return in one behaviour
MaxFaults   == 1    \* how many transient failures are injected in one behaviour
MaxRetriesArg == 5  \* the largest max_retries _navigate_with_retry is called with

None == <<"None">>   \* Python None where a text or a list is expected
NoDate == 0 - 1      \* Python None where a timestamp is expected

(***************************************************************************)
(* Text helpers: str.lower / toLowerCase, str.strip / trim, and the        *)
(* substring test (Python "in", JavaScript includes).                      *)
(***************************************************************************)
LowerChar(c) ==
    CASE c = "A" -> "a"
      [] c = "B" -> "b"
      [] c = "C" -> "c"
      [] OTHER   -> c

Lower(s) == [i \in 1..Len(s) |-> LowerChar(s[i])]

RECURSIVE LStrip(_)
LStrip(s) == IF s # <<>> /\ Head(s) = " " THEN LStrip(Tail(s)) ELSE s

RECURSIVE RStrip(_)
RStrip(s) ==
    IF s # <<>> /\ s[Len(s)] = " " THEN RStrip(SubSeq(s, 1, Len(s) - 1)) ELSE s

Strip(s) == RStrip(LStrip(s))

\* sub occurs in s as a contiguous run; the empty text occurs in every text
Includes(s, sub) ==
    \E i \in 0..(Len(s) - Len(sub)) : SubSeq(s, i + 1, i + Len(sub)) = sub

Range(s) == {s[i] : i \in 1..Len(s)}

Min(a, b) == IF a < b THEN a ELSE b

(***************************************************************************)
(* The seen_articles table.  UNIQUE(source_id, article_url).               *)
(***************************************************************************)
Row(s, u, g, t) ==
    [source_id |-> s, article_url |-> u, article_guid |-> g,
     first_seen |-> t, last_checked |-> t]

HasRow(db, s, u) == \E r \in db : r.source_id = s /\ r.article_url = u

\* SELECT COUNT(*) ... WHERE source_id = $1 AND article_url = $2; result == 0
is_new_article_MutAnySource(db, s, u) ==
    Cardinality({r \in db : r.article_url = u}) = 0

is_new_article(db, s, u) ==
    Cardinality({r \in db : r.source_id = s /\ r.article_url = u}) = 0

\* INSERT ... ON CONFLICT (source_id, article_url) DO UPDATE SET last_checked
Upsert_MutOverwrite(db, s, u, g, t) ==
    {r \in db : ~(r.source_id = s /\ r.article_url = u)} \cup {Row(s, u, g, t)}

Upsert_MutInsert(db, s, u, g, t) == db \cup {Row(s, u, g, t)}

Upsert_MutUrlKey(db, s, u, g, t) ==
    {r \in db : r.article_url # u} \cup {Row(s, u, g, t)}

Upsert(db, s, u, g, t) ==
    IF \E r \in db : r.source_id = s /\ r.article_url = u
    THEN {IF r.source_id = s /\ r.article_url = u
          THEN [r EXCEPT !.last_checked = t] ELSE r : r \in db}
    ELSE db \cup {Row(s, u, g, t)}

\* the command tag conn.execute returns for that statement: "INSERT oid
\* count", where count is the number of rows inserted or updated, so the
\* tag of a statement that took the DO UPDATE branch is the same
UpsertTag(db, s, u) ==
    IF HasRow(db, s, u) THEN <<"INSERT", 0, 1>> ELSE <<"INSERT", 0, 1>>

\* the loop of mark_as_seen over zip(urls, guids); yields the table and added
\* (added += 1 when result == "INSERT 0 1")
RECURSIVE MarkLoop(_, _, _, _, _, _, _)
MarkLoop(db, s, urls, guids, t, i, added) ==
    IF i > Len(urls) \/ i > Len(guids)
    THEN [db |-> db, added |-> added]
    ELSE MarkLoop(Upsert(db, s, urls[i], guids[i], t), s, urls, guids, t, i + 1,
                  IF UpsertTag(db, s, urls[i]) = <<"INSERT", 0, 1>>
                  THEN added + 1 ELSE added)

\* seen_set of filter_new_articles: article_url = ANY($2) for the source
SeenSet(db, s, urls) ==
    {r.article_url : r \in {x \in db : x.source_id = s /\ x.article_url \in Range(urls)}}

filter_new_articles_MutSet(db, s, urls) ==
    LET new == {u \in Range(urls) : u \notin SeenSet(db, s, urls)}
        RECURSIVE Uniq(_, _)
        Uniq(q, done) ==
            IF q = <<>> THEN <<>>
            ELSE IF Head(q) \in done \/ Head(q) \notin new THEN Uniq(Tail(q), done)
            ELSE <<Head(q)>> \o Uniq(Tail(q), done \cup {Head(q)})
    IN  Uniq(urls, {})

\* new_urls = [url for url in urls if url not in seen_set]
filter_new_articles(db, s, urls) ==
    IF urls = <<>> THEN <<>>
    ELSE SelectSeq(urls, LAMBDA u : u \notin SeenSet(db, s, urls))

(***************************************************************************)
(* Inputs of the store operations.                                         *)
(***************************************************************************)
JA == "japan_architects"
LZ == "landezine"
Sources == {JA, LZ}

U1 == <<"/", "a">>
U2 == <<"/", "b">>
StoreUrls == {U1, U2}
UrlLists == {<<>>, <<U1>>, <<U2, U1, U2>>}
\* the guids argument: not given (None), or a list
NoGuids == [given |-> FALSE, list |-> <<>>]
Guids(l) == [given |-> TRUE, list |-> l]
GuidLists == {NoGuids, Guids(<<U2, U1, U1>>)}

StartNow == 40 * TicksPerDay + 1    \* a moment in the middle of a day

(***************************************************************************)
(* ArticleTracker.connect, as every operation calls it first               *)
(* ("if not self.pool: await self.connect()").  create_pool or the schema  *)
(* statements can raise; a raise after create_pool leaves the pool set.    *)
(***************************************************************************)
ConnectOutcomes(p, ini) ==
    IF p
    THEN {[pool |-> TRUE, initialized |-> ini, ok |-> TRUE]}
    ELSE {[pool |-> FALSE, initialized |-> ini, ok |-> FALSE],
          [pool |-> TRUE, initialized |-> TRUE, ok |-> TRUE]}
         \cup (IF ini THEN {}
               ELSE {[pool |-> TRUE, initialized |-> FALSE, ok |-> FALSE]})

Returned(v, db) == [raised |-> FALSE, val |-> v, db |-> db]
Raised(db)      == [raised |-> TRUE, val |-> None, db |-> db]

\* one call of an ArticleTracker operation whose body yields out
StoreCall(op, s, arg, out) ==
    \E c \in ConnectOutcomes(pool, initialized) :
        /\ c.ok \/ faults < MaxFaults
        /\ pool' = c.pool
        /\ initialized' = c.initialized
        /\ faults' = IF c.ok THEN faults ELSE faults + 1
        /\ seen_articles' = IF c.ok THEN out.db ELSE seen_articles
        /\ ret' = [op |-> op, source |-> s, arg |-> arg,
                   raised |-> (~c.ok) \/ out.raised,
                   val |-> IF c.ok THEN out.val ELSE None,
                   connected |-> c.ok, at |-> now, before |-> seen_articles]

Connect ==
    /\ \E c \in ConnectOutcomes(pool, initialized) :
        /\ c.ok \/ faults < MaxFaults
        /\ pool' = c.pool
        /\ initialized' = c.initialized
        /\ faults' = IF c.ok THEN faults ELSE faults + 1
        /\ ret' = [op |-> "connect", source |-> None, arg |-> None,
                   raised |-> ~c.ok, val |-> None,
                   connected |-> c.ok, at |-> now, before |-> seen_articles]
    /\ UNCHANGED <<seen_articles, now, listing, pc, run, history, nav, call, task, mainVars>>

Close ==
    /\ pool
    /\ pool' = FALSE
    /\ ret' = [op |-> "close", source |-> None, arg |-> None,
               raised |-> FALSE, val |-> None,
               connected |-> FALSE, at |-> now, before |-> seen_articles]
    /\ UNCHANGED <<seen_articles, now, initialized, listing, pc, run,
                   history, faults, nav, call, task, mainVars>>

IsNewArticle(s, u) ==
    /\ StoreCall("is_new_article", s, u,
                 Returned(is_new_article(seen_articles, s, u), seen_articles))
    /\ UNCHANGED <<now, listing, pc, run, history, nav, call, task, mainVars>>

mark_as_seen_MutReplace(db, s, urls, guids, t) ==
    LET g == IF ~guids.given THEN urls ELSE guids.list
    IN  IF urls = <<>> THEN Returned(0, db)
        ELSE IF Len(urls) # Len(g) THEN Raised(db)
        ELSE LET m == MarkLoop({r \in db : r.source_id # s}, s, urls, g, t, 1, 0)
             IN  Returned(m.added, m.db)

mark_as_seen(db, s, urls, guids, t) ==
    LET g == IF ~guids.given THEN urls ELSE guids.list
    IN  IF urls = <<>> THEN Returned(0, db)
        ELSE IF Len(urls) # Len(g) THEN Raised(db)
        ELSE LET m == MarkLoop(db, s, urls, g, t, 1, 0)
             IN  Returned(m.added, m.db)

MarkAsSeen(s, urls, guids) ==
    /\ StoreCall("mark_as_seen", s, <<urls, guids>>,
                 mark_as_seen(seen_articles, s, urls, guids, now))
    /\ UNCHANGED <<now, listing, pc, run, history, nav, call, task, mainVars>>

FilterNewArticles(s, urls) ==
    /\ StoreCall("filter_new_articles", s, urls,
                 Returned(filter_new_articles(seen_articles, s, urls), seen_articles))
    /\ UNCHANGED <<now, listing, pc, run, history, nav, call, task, mainVars>>

(***************************************************************************)
(* cleanup_old_articles hands the server a statement with one placeholder  *)
(* ($1) and two arguments (source_id, days); the interval is the literal   *)
(* text '%s days', which nothing interpolates.  The server rejects the     *)
(* statement, execute raises, and no row is deleted.                       *)
(***************************************************************************)
cleanup_old_articles_MutDeletes(db, s, days, t) ==
    LET old == {r \in db : r.source_id = s /\ r.first_seen < t - days * TicksPerDay}
    IN  Returned(Cardinality(old), db \ old)

cleanup_old_articles(db, s, days, t) == Raised(db)

CleanupDays == {0, 90}
SweepDays == {0}        \* the sweeps between runs

CleanupOldArticles(s, days) ==
    /\ StoreCall("cleanup_old_articles", s, days,
                 cleanup_old_articles(seen_articles, s, days, now))
    /\ UNCHANGED <<now, listing, pc, run, history, nav, call, task, mainVars>>

\* get_stats: COUNT(*), MIN(first_seen), MAX(first_seen) and the sources, of
\* one source or, without source_id, of the whole table
NoSource == ""      \* source_id None: "if source_id" is false

get_stats(db, s) ==
    LET rows == IF s = NoSource THEN db ELSE {r \in db : r.source_id = s}
        seen == {r.first_seen : r \in rows}
    IN  [total_articles |-> Cardinality(rows),
         sources |-> IF s = NoSource THEN {r.source_id : r \in db} ELSE {s},
         oldest_seen |-> IF seen = {} THEN NoDate
                         ELSE CHOOSE t \in seen : \A x \in seen : t <= x,
         newest_seen |-> IF seen = {} THEN NoDate
                         ELSE CHOOSE t \in seen : \A x \in seen : t >= x]

GetStats(s) ==
    /\ StoreCall("get_stats", s, None, Returned(get_stats(seen_articles, s), seen_articles))
    /\ UNCHANGED <<now, listing, pc, run, history, nav, call, task, mainVars>>

\* get_recent_articles: the rows of the source, ORDER BY first_seen DESC
\* LIMIT $2; rows of equal first_seen come in any order
get_recent_articles(db, s, limit) ==
    LET rows == {r \in db : r.source_id = s}
        n == Min(limit, Cardinality(rows))
    IN  {q \in [1..n -> rows] :
            /\ \A i \in 1..n, j \in 1..n : i < j =>
                    (q[i] # q[j] /\ q[i].first_seen >= q[j].first_seen)
            /\ \A r \in rows : (\A i \in 1..n : q[i] # r) =>
                    (\A i \in 1..n : q[i].first_seen >= r.first_seen)}

RecentLimits == {1, 20}

GetRecentArticles(s, limit) ==
    /\ \E q \in get_recent_articles(seen_articles, s, limit) :
          StoreCall("get_recent_articles", s, limit, Returned(q, seen_articles))
    /\ UNCHANGED <<now, listing, pc, run, history, nav, call, task, mainVars>>

(***************************************************************************)
(* Two tasks that share the tracker and call mark_as_seen at the same      *)
(* time.                                                                   *)
(***************************************************************************)
Tasks == {1, 2}

IdleTask ==
    [phase |-> "idle", source |-> NoSource, urls |-> <<>>, guids |-> <<>>,
     now |-> 0, i |-> 0, added |-> 0, won |-> {}, raised |-> FALSE, failed |-> {}]

\* "except Exception as e: print(...)": the pass ends, the loop goes on;
\* failed: the passes whose statement raised
StatementFailed_MutAbort(t) == [t EXCEPT !.i = Len(t.urls) + 1, !.failed = @ \cup {t.i}]

StatementFailed(t) == [t EXCEPT !.i = @ + 1, !.failed = @ \cup {t.i}]

\* mark_as_seen up to the loop: the pool is there, "if not urls: return 0",
\* guids defaults to urls, now is read once
TaskBegin(k, s, urls) ==
    /\ task[k].phase = "idle"
    /\ pool
    /\ task' = [task EXCEPT ![k] =
                    [IdleTask EXCEPT !.phase = IF urls = <<>> THEN "done" ELSE "loop",
                                     !.source = s, !.urls = urls,
                                     !.guids = urls, !.now = now, !.i = 1]]
    /\ UNCHANGED <<storeVars, runVars, nav, call, mainVars>>

\* the same with guids given: "if len(urls) != len(guids): raise
\* ValueError(...)", after the test for empty urls and before the loop
TaskBeginGuids(k, s, urls, guids) ==
    /\ task[k].phase = "idle"
    /\ pool
    /\ guids.given
    /\ task' = [task EXCEPT ![k] =
                    [IdleTask EXCEPT
                        !.phase = IF urls = <<>> \/ Len(urls) # Len(guids.list)
                                  THEN "done" ELSE "loop",
                        !.raised = (urls # <<>> /\ Len(urls) # Len(guids.list)),
                        !.source = s, !.urls = urls,
                        !.guids = guids.list, !.now = now, !.i = 1]]
    /\ UNCHANGED <<storeVars, runVars, nav, call, mainVars>>

\* one pass of "for url, guid in zip(urls, guids)": the statement is
\* executed by the server as a whole, or it fails, and the error is caught
\* and printed
TaskStatement(k) ==
    /\ task[k].phase = "loop"
    /\ task[k].i <= Len(task[k].urls)
    /\ LET t == task[k]
           url == t.urls[t.i]
       IN  \/ /\ seen_articles' = Upsert(seen_articles, t.source, url, t.guids[t.i], t.now)
              /\ task' = [task EXCEPT ![k] =
                    [t EXCEPT !.i = @ + 1,
                              !.added = IF UpsertTag(seen_articles, t.source, url)
                                               = <<"INSERT", 0, 1>>
                                        THEN @ + 1 ELSE @,
                              !.won = IF HasRow(seen_articles, t.source, url)
                                      THEN @ ELSE @ \cup {url}]]
              /\ UNCHANGED faults
           \/ /\ faults < MaxFaults
              /\ faults' = faults + 1
              /\ task' = [task EXCEPT ![k] = StatementFailed(t)]
              /\ UNCHANGED seen_articles
    /\ UNCHANGED <<now, pool, initialized, ret, listing, pc, run, history, nav, call, mainVars>>

\* "return added"
TaskEnd(k) ==
    /\ task[k].phase = "loop"
    /\ task[k].i > Len(task[k].urls)
    /\ task' = [task EXCEPT ![k] = [@ EXCEPT !.phase = "done"]]
    /\ UNCHANGED <<storeVars, runVars, nav, call, mainVars>>

Tick ==
    /\ now < StartNow + MaxTicks
    /\ now' = now + 1
    /\ UNCHANGED <<seen_articles, pool, initialized, ret, listing, pc, run,
                   history, faults, nav, call, task, mainVars>>


(***************************************************************************)
(* The sites.  A japan-architects listing is its sequence of news panels   *)
(* (href of the article link or None, and the date text of the panel).     *)
(* A landezine homepage is the headlines the vision step reads off the     *)
(* screenshot, the anchors of the DOM in document order, and for every     *)
(* article URL its detail page (date text of the body, date text of the    *)
(* article:published_time meta tag, anchors of that page).                 *)
(***************************************************************************)
Host == "H"
OtherHost == "X"
Home == <<Host>>        \* LandezineScraper.base_url
Blank == <<>>           \* a page that never loaded

Day(n) == n * TicksPerDay                   \* midnight of day n
Today == StartNow \div TicksPerDay          \* the day the behaviour starts

(***************************************************************************)
(* Dates.  A date text the regular expressions found is the tuple          *)
(* <<day, month, year>> of its numbers, NoMatch when they found none.      *)
(* datetime(year, month, day) raises ValueError for numbers that are not   *)
(* a date of the calendar; day 0 of the clock is 31.12.2024.               *)
(***************************************************************************)
NoMatch == <<>>

IsLeap(year) == year % 4 = 0 /\ (year % 100 # 0 \/ year % 400 = 0)

DaysInMonth(year, month) ==
    IF month = 2 THEN (IF IsLeap(year) THEN 29 ELSE 28)
    ELSE IF month \in {4, 6, 9, 11} THEN 30 ELSE 31

\* the check of the datetime constructor (MINYEAR = 1, MAXYEAR = 9999)
ValidDate(year, month, day) ==
    /\ year \in 1..9999
    /\ month \in 1..12
    /\ day \in 1..DaysInMonth(year, month)

DaysBeforeYear(year) ==
    LET y == year - 1
    IN  y * 365 + (y \div 4) - (y \div 100) + (y \div 400)

RECURSIVE DaysBeforeMonth(_, _)
DaysBeforeMonth(year, month) ==
    IF month = 1 THEN 0
    ELSE DaysBeforeMonth(year, month - 1) + DaysInMonth(year, month - 1)

\* date.toordinal
ToOrdinal(year, month, day) ==
    DaysBeforeYear(year) + DaysBeforeMonth(year, month) + day

\* the timestamp of midnight UTC of a valid date
Midnight(year, month, day) ==
    Day(ToOrdinal(year, month, day) - ToOrdinal(2024, 12, 31))

\* a conversion that rolls the excess days over into the next month
DateIso_MutRollOver(text) ==
    IF text = NoMatch THEN NoDate
    ELSE Day(DaysBeforeYear(text[3]) + DaysBeforeMonth(text[3], text[2]) + text[1]
             - ToOrdinal(2024, 12, 31))

\* datetime(year=int(year), month=int(month), day=int(day), tzinfo=utc)
\* .isoformat(), with "except ValueError" leaving date_iso None
DateIso(text) ==
    IF text = NoMatch THEN NoDate
    ELSE IF ~ValidDate(text[3], text[2], text[1]) THEN NoDate
    ELSE Midnight(text[3], text[2], text[1])

\* what a site prints for day n
Dotted(n) ==
    CHOOSE text \in (1..31) \X (1..12) \X {2024, 2025} :
        /\ ValidDate(text[3], text[2], text[1])
        /\ Midnight(text[3], text[2], text[1]) = Day(n)

Feb31 == <<31, 2, 2025>>    \* 31.02.2025

Letters == <<"a", "b", "c", "d", "e", "f", "g", "h", "i",
             "j", "k", "l", "m", "n", "o", "p", "q">>

Path(n) == <<"/", Letters[n]>>
Abs(path) == <<Host>> \o path

Panel(href, date) == [href |-> href, date |-> date, raises |-> "no"]

\* a panel whose parsing raises: "early", before its URL is put into
\* seen_urls, or "late", after that
RaisingPanel(href, date, where) == [href |-> href, date |-> date, raises |-> where]

\* A, B, C of the scenario (C is 40 days old), a second panel for A in
\* absolute form, a panel without article link
JaPageShort ==
    << Panel(Path(1), Dotted(Today - 1)),
       Panel(Path(2), Dotted(Today)),
       Panel(Path(3), Dotted(Today - 40)),
       Panel(None, NoMatch),
       Panel(Abs(Path(1)), Dotted(Today)) >>

\* seventeen articles; the 2nd and the 17th are old, the 5th is dated
\* 31.02.2025, the 8th has no date
JaPageLong ==
    [n \in 1..17 |->
        Panel(Path(n), IF n \in {2, 17} THEN Dotted(Today - 31)
                       ELSE IF n = 5 THEN Feb31
                       ELSE IF n = 8 THEN NoMatch
                       ELSE Dotted(Today - (n % 3)))]

JaPages == {JaPageShort, JaPageLong}

Anchor(text, href) == [text |-> text, href |-> href]
Detail(body, meta, anchors) == [body |-> body, meta |-> meta, anchors |-> anchors]

Headline(n) == <<Letters[n], Letters[n + 1]>>

\* three headlines; the second article is old, the third has only a meta date
LzPageShort ==
    [headlines |-> << <<"A", "b">>, Headline(3), Headline(5) >>,
     anchors   |-> << Anchor(<<" ", "a", "b", " ">>, Abs(Path(1))),
                      Anchor(Headline(3), Abs(Path(3))),
                      Anchor(Headline(5), Abs(Path(5))) >>,
     details   |-> [u \in {Abs(Path(1)), Abs(Path(3)), Abs(Path(5))} |->
                      IF u = Abs(Path(3))
                      THEN Detail(Dotted(Today - 9), NoMatch, <<>>)
                      ELSE IF u = Abs(Path(5))
                      THEN Detail(NoMatch, Dotted(Today - 1), <<>>)
                      ELSE Detail(Dotted(Today), Dotted(Today - 9), <<>>)]]

\* eleven headlines, every article of yesterday; the 4th has no date, the
\* 6th is dated 31.02.2025
LzPageLong ==
    [headlines |-> [n \in 1..11 |-> Headline(n)],
     anchors   |-> [n \in 1..11 |-> Anchor(Headline(n), Abs(Path(n)))],
     details   |-> [u \in {Abs(Path(n)) : n \in 1..11} |->
                      Detail(IF u = Abs(Path(4)) THEN NoMatch
                             ELSE IF u = Abs(Path(6)) THEN Feb31
                             ELSE Dotted(Today - 1),
                             NoMatch, <<>>)]]

\* a homepage on which the vision step finds no headline
LzPageEmpty ==
    [headlines |-> <<>>,
     anchors   |-> << Anchor(<<>>, Home) >>,
     details   |-> [u \in {} |-> Detail(NoMatch, NoMatch, <<>>)]]

\* a listing without news panel, and one whose only panel has no article link
JaPageEmpty == <<>>
JaPageNoLink == << Panel(None, NoMatch) >>

LzPages == {LzPageShort, LzPageLong}

Site(j, l) == [a \in Sources |-> IF a = JA THEN j ELSE l]

\* tables left by earlier sessions
OldRow(s, u) == Row(s, u, u, StartNow - 5 * TicksPerDay)

SeededStore ==
    {OldRow(JA, Abs(Path(2))), OldRow(LZ, Abs(Path(2))),
     OldRow(LZ, <<"a", "b", " ", "x">>)}

\* the sites and the table a behaviour starts with
Worlds ==
    { [site |-> Site(JaPageShort, LzPageShort), store |-> {}],
      [site |-> Site(JaPageShort, LzPageShort), store |-> SeededStore],
      [site |-> Site(JaPageLong, LzPageLong), store |-> {}],
      [site |-> Site(JaPageEmpty, LzPageEmpty), store |-> SeededStore],
      [site |-> Site(JaPageNoLink, LzPageEmpty), store |-> {}] }


(***************************************************************************)
(* Runs of fetch_articles.  Every run is the run of a scraper object that  *)
(* was created for it (scraper = ...Scraper(); scraper.fetch_articles();   *)
(* scraper.close()), so it starts without tracker.                         *)
(***************************************************************************)
Procs == {1, 2}

\* a tracker call that changes the table
Write(op, arg) == [op |-> op, arg |-> arg]

\* writes: the tracker calls of the run that change the table, as issued;
\* taken: the candidates the loop over the candidates has taken up
IdleRun ==
    [adapter |-> "", extracted |-> <<>>, ids |-> <<>>, new_all |-> <<>>,
     cands |-> <<>>, i |-> 0, new_articles |-> <<>>, rejected |-> <<>>,
     at |-> Blank, persisted |-> FALSE, error |-> FALSE, raised |-> FALSE,
     result |-> <<>>, before |-> {}, writes |-> <<>>, taken |-> <<>>]

Article(id, link, published) == [id |-> id, link |-> link, published |-> published]

Started == Len(history) + Cardinality({p \in Procs : pc[p] # "idle"})

Goto(p, r, c) ==
    /\ run' = [run EXCEPT ![p] = r]
    /\ pc' = [pc EXCEPT ![p] = c]

\* the run takes its error path: "except Exception: ... return []"
Failed(r) == [r EXCEPT !.error = TRUE, !.result = <<>>]

\* nothing was extracted: "return []" from inside the try block
NoMatches_MutError(r) == Failed(r)

NoMatches(r) == [r EXCEPT !.result = <<>>]

\* a transient failure (navigation, store) is injected
Inject == faults < MaxFaults /\ faults' = faults + 1


(***************************************************************************)
(* JapanArchitectsScraper                                                  *)
(***************************************************************************)
JA_MAX_ARTICLE_AGE_DAYS == 30
MAX_NEW_ARTICLES == 15

\* urljoin("https://www.japan-architects.com", article_link): a link with
\* a host of its own stays as it is
urljoin_MutIdentity(href) == href

urljoin(href) ==
    IF href # <<>> /\ Head(href) \in {Host, OtherHost} THEN href ELSE <<Host>> \o href

\* the loop over news_panels: no link -> continue; URL already in seen_urls
\* -> continue; otherwise append (full_url, title, date_iso).  An exception
\* in the body of the loop is caught: "except Exception: ... continue".
RECURSIVE ExtractLoop_MutAbort(_, _, _)
ExtractLoop_MutAbort(panels, seen_urls, articles) ==
    IF panels = <<>> THEN articles
    ELSE LET panel == Head(panels)
             full_url == urljoin(panel.href)
         IN  IF panel.raises = "early" THEN articles
             ELSE IF panel.href = None
             THEN ExtractLoop_MutAbort(Tail(panels), seen_urls, articles)
             ELSE IF full_url \in seen_urls
             THEN ExtractLoop_MutAbort(Tail(panels), seen_urls, articles)
             ELSE IF panel.raises = "late" THEN articles
             ELSE ExtractLoop_MutAbort(Tail(panels), seen_urls \cup {full_url},
                              Append(articles, [url |-> full_url,
                                                date |-> DateIso(panel.date)]))

RECURSIVE ExtractLoop(_, _, _)
ExtractLoop(panels, seen_urls, articles) ==
    IF panels = <<>> THEN articles
    ELSE LET panel == Head(panels)
             full_url == urljoin(panel.href)
         IN  IF panel.raises = "early" THEN ExtractLoop(Tail(panels), seen_urls, articles)
             ELSE IF panel.href = None THEN ExtractLoop(Tail(panels), seen_urls, articles)
             ELSE IF full_url \in seen_urls
             THEN ExtractLoop(Tail(panels), seen_urls, articles)
             ELSE IF panel.raises = "late"
             THEN ExtractLoop(Tail(panels), seen_urls \cup {full_url}, articles)
             ELSE ExtractLoop(Tail(panels), seen_urls \cup {full_url},
                              Append(articles, [url |-> full_url,
                                                date |-> DateIso(panel.date)]))

_extract_articles_from_html(panels) == ExtractLoop(panels, {}, <<>>)

\* article_date >= now - timedelta(days=MAX_ARTICLE_AGE_DAYS); no date -> True
_is_within_age_limit_MutAlways(date_iso, t) == TRUE

_is_within_age_limit(date_iso, t) ==
    IF date_iso = NoDate THEN TRUE
    ELSE date_iso >= t - JA_MAX_ARTICLE_AGE_DAYS * TicksPerDay

\* new_articles_data = [(url, title, date) for ... in extracted if url not in seen_urls]
JA_NewArticlesData_MutAll(extracted, seen_urls) == extracted

JA_NewArticlesData(extracted, seen_urls) ==
    SelectSeq(extracted, LAMBDA e : e.url \notin seen_urls)

\* new_articles_data[:self.MAX_NEW_ARTICLES]
JA_Capped_MutNoCap(new_articles_data) == new_articles_data

JA_Capped(new_articles_data) ==
    SubSeq(new_articles_data, 1, Min(Len(new_articles_data), MAX_NEW_ARTICLES))

\* Step 4: the loop that filters by date and builds the article dicts
RECURSIVE JA_FilterLoop_MutPrepend(_, _, _)
JA_FilterLoop_MutPrepend(data, t, acc) ==
    IF data = <<>> THEN acc
    ELSE LET e == Head(data)
         IN  IF ~_is_within_age_limit(e.date, t)
             THEN JA_FilterLoop_MutPrepend(Tail(data), t,
                                [acc EXCEPT !.rejected = Append(@, e.url)])
             ELSE JA_FilterLoop_MutPrepend(Tail(data), t,
                                [acc EXCEPT !.new_articles =
                                    <<Article(e.url, e.url, e.date)>> \o @])

RECURSIVE JA_FilterLoop(_, _, _)
JA_FilterLoop(data, t, acc) ==
    IF data = <<>> THEN acc
    ELSE LET e == Head(data)
         IN  IF ~_is_within_age_limit(e.date, t)
             THEN JA_FilterLoop(Tail(data), t,
                                [acc EXCEPT !.rejected = Append(@, e.url)])
             ELSE JA_FilterLoop(Tail(data), t,
                                [acc EXCEPT !.new_articles =
                                    Append(@, Article(e.url, e.url, e.date))])

\* the list handed to store_headlines in Step 5 and in the no-new branch
JA_StoredUrls_MutDelivered(r) == [k \in 1..Len(r.new_articles) |-> r.new_articles[k].link]

JA_StoredUrls(r) == r.ids

(***************************************************************************)
(* The tracker operations the scrapers call.  storage/article_tracker.py   *)
(* defines none of them; they follow the NoveltyStore contract.            *)
(***************************************************************************)
\* identifiers recorded for the source
get_stored_headlines(db, s) == {r.article_url : r \in {x \in db : x.source_id = s}}

\* markSeen: insert if absent, otherwise update last_checked
RECURSIVE store_headlines(_, _, _, _)
store_headlines(db, s, texts, t) ==
    IF texts = <<>> THEN db
    ELSE store_headlines(Upsert(db, s, Head(texts), Head(texts), t), s, Tail(texts), t)

\* whitespace-normalized, case-folded text
RECURSIVE Collapse(_)
Collapse(s) ==
    IF Len(s) < 2 THEN s
    ELSE IF s[1] = " " /\ s[2] = " " THEN Collapse(Tail(s))
    ELSE <<s[1]>> \o Collapse(Tail(s))

Normalize(s) == Lower(Collapse(Strip(s)))

Similar(a, b) ==
    Includes(Normalize(a), Normalize(b)) \/ Includes(Normalize(b), Normalize(a))

\* findNewFuzzy: the texts without a similar stored text, in input order
find_new_headlines(db, s, texts) ==
    SelectSeq(texts, LAMBDA x :
        ~ \E r \in db : r.source_id = s /\ Similar(x, r.article_url))

\* rebindIdentifier: the record of the headline is bound to the URL
update_headline_url(db, s, headline, url) ==
    {IF r.source_id = s /\ r.article_url = headline
     THEN [r EXCEPT !.article_guid = url] ELSE r : r \in db}


\* Steps 1 and 2: _ensure_tracker, load the homepage, extract the panels
JA_FetchListing(p) ==
    /\ pc[p] = "idle"
    /\ Started < MaxRuns
    /\ \/ \* connect() raises in _ensure_tracker, before the try block
          /\ Inject
          /\ Goto(p, [IdleRun EXCEPT !.adapter = JA, !.raised = TRUE,
                                      !.before = seen_articles], "done")
       \/ \* _create_page or page.goto raises
          /\ Inject
          /\ Goto(p, Failed([IdleRun EXCEPT !.adapter = JA,
                                             !.before = seen_articles]), "done")
       \/ /\ UNCHANGED faults
          /\ LET extracted == _extract_articles_from_html(listing[JA])
                 r == [IdleRun EXCEPT !.adapter = JA, !.extracted = extracted,
                          !.ids = [k \in 1..Len(extracted) |-> extracted[k].url],
                          !.before = seen_articles]
             IN  IF extracted = <<>> THEN Goto(p, NoMatches(r), "done")
                 ELSE Goto(p, r, "dedup")
    /\ UNCHANGED <<storeVars, listing, history, nav, call, task, mainVars>>

\* Steps 3 and 4: read the stored URLs, keep the new ones, filter by date
JA_Dedup(p) ==
    /\ pc[p] = "dedup"
    /\ run[p].adapter = JA
    /\ \/ \* get_stored_headlines raises
          /\ Inject
          /\ Goto(p, Failed(run[p]), "done")
       \/ /\ UNCHANGED faults
          /\ LET seen_urls == get_stored_headlines(seen_articles, JA)
                 new_articles_data == JA_NewArticlesData(run[p].extracted, seen_urls)
                 capped == JA_Capped(new_articles_data)
                 r == [run[p] EXCEPT
                          !.new_all = [k \in 1..Len(new_articles_data) |->
                                          new_articles_data[k].url],
                          !.cands = [k \in 1..Len(capped) |-> capped[k].url],
                          !.i = Len(capped)]
             IN  Goto(p, JA_FilterLoop(capped, now, r), "persist")
    /\ UNCHANGED <<storeVars, listing, history, nav, call, task, mainVars>>

\* Step 5 (and the no-new branch): store all URLs, return new_articles
JA_Persist(p) ==
    /\ pc[p] = "persist"
    /\ run[p].adapter = JA
    /\ \/ \* store_headlines raises
          /\ Inject
          /\ Goto(p, Failed(run[p]), "done")
          /\ UNCHANGED seen_articles
       \/ /\ UNCHANGED faults
          /\ seen_articles' =
                store_headlines(seen_articles, JA, JA_StoredUrls(run[p]), now)
          /\ Goto(p, [run[p] EXCEPT !.persisted = TRUE,
                                    !.writes = Append(@, Write("store_headlines", run[p].ids)),
                                    !.result = run[p].new_articles], "done")
       \/ \* the URLs are stored, then the stats upload, or page.close() in
          \* the finally clause, raises: "except Exception: ... return []"
          /\ Inject
          /\ seen_articles' =
                store_headlines(seen_articles, JA, JA_StoredUrls(run[p]), now)
          /\ Goto(p, Failed([run[p] EXCEPT !.persisted = TRUE,
                                           !.writes = Append(@, Write("store_headlines", run[p].ids))]),
                  "done")
    /\ UNCHANGED <<now, pool, initialized, ret, listing, history, nav, call, task, mainVars>>

(***************************************************************************)
(* LandezineScraper                                                        *)
(***************************************************************************)
LZ_MAX_ARTICLE_AGE_DAYS == 2
max_new == 10

\* the first anchor whose lower-cased, trimmed text contains the search
\* text or is contained in it
RECURSIVE FindLoop(_, _)
FindLoop(allLinks, searchText) ==
    IF allLinks = <<>> THEN [found |-> FALSE, title |-> <<>>, link |-> <<>>]
    ELSE LET link == Head(allLinks)
             linkText == Lower(Strip(link.text))
         IN  IF Includes(linkText, searchText) \/ Includes(searchText, linkText)
             THEN [found |-> TRUE, title |-> Strip(link.text), link |-> link.href]
             ELSE FindLoop(Tail(allLinks), searchText)

_find_headline_in_html(allLinks, headline) == FindLoop(allLinks, Lower(Strip(headline)))

\* the anchors of the page the browser shows
PageAnchors(site, at) ==
    IF at = Home THEN site.anchors
    ELSE IF at \in DOMAIN site.details THEN site.details[at].anchors
    ELSE <<>>

\* date_text of the detail page: the first body-text match, else the meta tag
DateText(d) == IF d.body # NoMatch THEN d.body ELSE d.meta

\* BaseCustomScraper._parse_date: the timestamp, None for a text that is
\* no date
_parse_date(date_text) ==
    IF date_text = NoMatch THEN NoDate
    ELSE IF ~ValidDate(date_text[3], date_text[2], date_text[1]) THEN NoDate
    ELSE Midnight(date_text[3], date_text[2], date_text[1])

\* BaseCustomScraper._validate_article: title and link are mandatory
_validate_article(article) == article.title # <<>> /\ article.link # <<>>

\* days_old = (current_date - article_date).days; skipped if > MAX_ARTICLE_AGE_DAYS
LZ_TooOld_MutNever(published, t) == FALSE

LZ_TooOld(published, t) ==
    (t - published) \div TicksPerDay > LZ_MAX_ARTICLE_AGE_DAYS

\* new_headlines[:max_new] when len(new_headlines) > max_new
LZ_Capped_MutNoCap(new_headlines) == new_headlines

LZ_Capped(new_headlines) ==
    IF Len(new_headlines) > max_new THEN SubSeq(new_headlines, 1, max_new)
    ELSE new_headlines

\* the list handed to store_headlines in Step 8
LZ_StoredHeadlines_MutNew(r) == r.cands

LZ_StoredHeadlines(r) == r.ids

\* Steps 1 to 5: tracker, stealth page, homepage, screenshot, vision
LZ_FetchListing(p) ==
    /\ pc[p] = "idle"
    /\ Started < MaxRuns
    /\ \/ \* connect() raises in _ensure_tracker, before the try block
          /\ Inject
          /\ Goto(p, [IdleRun EXCEPT !.adapter = LZ, !.raised = TRUE,
                                      !.before = seen_articles], "done")
       \/ \* navigation fails or raises, or the vision step yields nothing
          /\ Inject
          /\ \E err \in BOOLEAN :
                Goto(p, [IdleRun EXCEPT !.adapter = LZ, !.error = err,
                                        !.before = seen_articles], "done")
       \/ /\ UNCHANGED faults
          /\ LET current_headlines == listing[LZ].headlines
                 r == [IdleRun EXCEPT !.adapter = LZ, !.ids = current_headlines,
                          !.extracted = current_headlines, !.at = Home,
                          !.before = seen_articles]
             IN  IF current_headlines = <<>> THEN Goto(p, NoMatches(r), "done")
                 ELSE Goto(p, r, "dedup")
    /\ UNCHANGED <<storeVars, listing, history, nav, call, task, mainVars>>

\* self.tracker.find_new_headlines(self.source_id, current_headlines)
LZ_NewHeadlines_MutExact(db, current_headlines) ==
    filter_new_articles(db, LZ, current_headlines)

LZ_NewHeadlines(db, current_headlines) ==
    find_new_headlines(db, LZ, current_headlines)

\* Step 6: the new headlines, limited to max_new
LZ_Dedup(p) ==
    /\ pc[p] = "dedup"
    /\ run[p].adapter = LZ
    /\ \/ \* find_new_headlines raises
          /\ Inject
          /\ Goto(p, Failed(run[p]), "done")
       \/ /\ UNCHANGED faults
          /\ LET new_headlines == LZ_NewHeadlines(seen_articles, run[p].ids)
                 r == [run[p] EXCEPT !.new_all = new_headlines,
                                     !.cands = LZ_Capped(new_headlines), !.i = 1]
             IN  Goto(p, r, IF new_headlines = <<>> THEN "done" ELSE "process")
    /\ UNCHANGED <<storeVars, listing, history, nav, call, task, mainVars>>

\* "continue": on to the next headline; the mutant leaves the loop
Continue_MutBreak(r) == [r EXCEPT !.i = Len(r.cands) + 1]

Continue(r) == [r EXCEPT !.i = @ + 1]

\* Step 7, one pass of the loop over new_headlines
LZ_ProcessHeadline(p) ==
    /\ pc[p] = "process"
    /\ run[p].i <= Len(run[p].cands)
    /\ LET r == run[p]
           headline == r.cands[r.i]
           homepage_data == _find_headline_in_html(PageAnchors(listing[LZ], r.at), headline)
           pass == [r EXCEPT !.taken = Append(@, headline)]
           next == Continue(pass)
       IN  IF ~homepage_data.found
           THEN \* "Could not find link for headline"
                /\ Goto(p, next, "process")
                /\ UNCHANGED <<seen_articles, faults>>
           ELSE LET url == homepage_data.link
                    d == IF url \in DOMAIN listing[LZ].details
                         THEN listing[LZ].details[url]
                         ELSE Detail(NoMatch, NoMatch, <<>>)
                    published == _parse_date(DateText(d))
                    article == [title |-> homepage_data.title, link |-> url,
                                published |-> published]
                    valid == _validate_article(article)
                    appended ==
                        IF valid
                        THEN [pass EXCEPT !.i = @ + 1, !.new_articles =
                                 Append(@, Article(headline, url, published))]
                        ELSE [pass EXCEPT !.i = @ + 1]
                IN  \/ \* _navigate_with_retry returns False or raises: the
                       \* page stays where it was, or shows something else
                       /\ Inject
                       /\ \E at \in {Blank, r.at} :
                             Goto(p, [next EXCEPT !.at = at], "process")
                       /\ UNCHANGED seen_articles
                    \/ /\ published # NoDate /\ LZ_TooOld(published, now)
                       /\ Goto(p, [next EXCEPT !.at = url,
                                               !.rejected = Append(@, headline)],
                               "process")
                       /\ UNCHANGED <<seen_articles, faults>>
                    \/ /\ ~(published # NoDate /\ LZ_TooOld(published, now))
                       /\ \/ /\ seen_articles' =
                                   IF valid
                                   THEN update_headline_url(seen_articles, LZ, headline, url)
                                   ELSE seen_articles
                             /\ Goto(p, [appended EXCEPT !.at = Home,
                                            !.writes = IF valid
                                                THEN Append(@, Write("update_headline_url",
                                                                   <<headline, url>>))
                                                ELSE @],
                                     "process")
                             /\ UNCHANGED faults
                          \/ \* update_headline_url or the way back raises
                             /\ Inject
                             /\ Goto(p, [appended EXCEPT !.at = url], "process")
                             /\ UNCHANGED seen_articles
    /\ UNCHANGED <<now, pool, initialized, ret, listing, history, nav, call, task, mainVars>>

\* Step 8: store all current headlines, return new_articles
LZ_Persist(p) ==
    /\ pc[p] = "process"
    /\ run[p].i > Len(run[p].cands)
    /\ \/ \* store_headlines raises
          /\ Inject
          /\ Goto(p, Failed(run[p]), "done")
          /\ UNCHANGED seen_articles
       \/ /\ UNCHANGED faults
          /\ seen_articles' =
                store_headlines(seen_articles, LZ, LZ_StoredHeadlines(run[p]), now)
          /\ Goto(p, [run[p] EXCEPT !.persisted = TRUE,
                                    !.writes = Append(@, Write("store_headlines", run[p].ids)),
                                    !.result = run[p].new_articles], "done")
    /\ UNCHANGED <<now, pool, initialized, ret, listing, history, nav, call, task, mainVars>>

\* what the caller of fetch_articles gets
Outcome(r, raised, last_call) ==
    [source |-> r.adapter, ids |-> r.ids, new_all |-> r.new_all,
     cands |-> r.cands, rejected |-> r.rejected,
     batch |-> IF raised THEN <<>> ELSE r.result,
     persisted |-> r.persisted, error |-> r.error, raised |-> raised,
     last_call |-> last_call, writes |-> r.writes]

\* fetch_articles returns (or raises) to its caller.  Landezine closes page
\* and context in a finally clause outside its except clause: a close()
\* that raises replaces the return value by the exception.
Return(p) ==
    /\ pc[p] = "done"
    /\ \/ /\ UNCHANGED faults
          /\ history' = Append(history, Outcome(run[p], run[p].raised, ret.op))
       \/ /\ run[p].adapter = LZ /\ ~run[p].raised
          /\ Inject
          /\ history' = Append(history, Outcome(run[p], TRUE, ret.op))
    /\ Goto(p, IdleRun, "idle")
    /\ UNCHANGED <<storeVars, listing, nav, call, task, mainVars>>

(***************************************************************************)
(* LandezineScraper._navigate_with_retry(page, url, max_retries).  One     *)
(* step per pass of "for attempt in range(max_retries)".  What page.goto   *)
(* does is the environment's choice: it raises (timeout, connection        *)
(* error), or yields a response (or None) and leaves the page at some URL. *)
(***************************************************************************)
NoResponse == 0             \* page.goto returned None
Statuses == {200, 403, 404, NoResponse}

OffHost == <<OtherHost, "/">>                 \* a page of another host
OffHostQuery == <<OtherHost, "/", "?", Host>> \* another host, our host in the query
NavUrls == {Abs(Path(1)), OffHost, OffHostQuery}

Response(exc, status, url) == [exc |-> exc, status |-> status, url |-> url]

Responses ==
    {Response(TRUE, NoResponse, Blank)}
        \cup {Response(FALSE, st, Abs(Path(1))) : st \in Statuses}
        \cup {Response(FALSE, 200, u) : u \in {OffHost, OffHostQuery}}

\* self.base_url.replace('https://', '').replace('http://', '') in current_url
HostInUrl(current_url) == Includes(current_url, <<Host>>)

Sleep(attempt, secs, kind) == [after |-> attempt, secs |-> secs, kind |-> kind]

NavIdle ==
    [phase |-> "idle", max_retries |-> 0, attempt |-> 0, log |-> <<>>,
     sleeps |-> <<>>, result |-> "none"]

\* the body of the loop for this attempt, given what page.goto did
NavPass(n, resp) ==
    LET logged == [n EXCEPT !.log = Append(@, resp)]
        last == n.attempt >= n.max_retries - 1
        again(secs, kind) ==
            [logged EXCEPT !.attempt = @ + 1,
                           !.sleeps = Append(@, Sleep(n.attempt, secs, kind))]
        finish(v) == [logged EXCEPT !.phase = "done", !.result = v]
    IN  IF resp.exc
        THEN IF ~last THEN again(3 * (n.attempt + 1), "error") ELSE finish("raised")
        ELSE IF resp.status # NoResponse /\ resp.status = 403
        THEN again(5, "cooldown")
        ELSE IF ~HostInUrl(resp.url)
        THEN IF ~last THEN again(3, "redirect") ELSE finish("False")
        ELSE finish("True")

_navigate_with_retry(max_retries) ==
    /\ nav.phase = "idle"
    /\ nav' = [NavIdle EXCEPT !.phase = "loop", !.max_retries = max_retries]
    /\ UNCHANGED <<storeVars, runVars, call, task, mainVars>>

NavAttempt(resp) ==
    /\ nav.phase = "loop"
    /\ nav.attempt < nav.max_retries
    /\ nav' = NavPass(nav, resp)
    /\ UNCHANGED <<storeVars, runVars, call, task, mainVars>>

\* the loop ran out: "return False"
NavExhausted ==
    /\ nav.phase = "loop"
    /\ nav.attempt >= nav.max_retries
    /\ nav' = [nav EXCEPT !.phase = "done", !.result = "False"]
    /\ UNCHANGED <<storeVars, runVars, call, task, mainVars>>

NavReturn ==
    /\ nav.phase = "done"
    /\ nav' = NavIdle
    /\ UNCHANGED <<storeVars, runVars, call, task, mainVars>>


(***************************************************************************)
(* The functions of the scrapers, applied to inputs of their own: call is  *)
(* the function, its arguments and what it returned.                       *)
(***************************************************************************)
NoCall == [fn |-> "none", arg |-> <<>>, out |-> <<>>]

Called(fn, arg, out) == [fn |-> fn, arg |-> arg, out |-> out]

\* ages, in days, of the dates the listings and detail pages show
Ages == {0, 1, 2, 3, 29, 30, 31}

\* date texts of news panels
PanelDates == {NoMatch, Feb31} \cup {Dotted(Today - k) : k \in Ages}

\* timestamps _parse_date yields: any time of the day
ParsedDates ==
    {NoDate} \cup {Day(Today - k) + h : k \in Ages, h \in 0..(TicksPerDay - 1)}

IsWithinAgeLimit(date_iso) ==
    /\ call = NoCall
    /\ call' = Called("_is_within_age_limit", <<date_iso, now>>,
                      _is_within_age_limit(date_iso, now))
    /\ UNCHANGED <<storeVars, runVars, nav, task, mainVars>>

\* "if published: ... if days_old > self.MAX_ARTICLE_AGE_DAYS: continue",
\* else "No date found - including anyway"
DaysOldTest(published) ==
    /\ call = NoCall
    /\ call' = Called("days_old", <<published, now>>,
                      [kept |-> ~(published # NoDate /\ LZ_TooOld(published, now))])
    /\ UNCHANGED <<storeVars, runVars, nav, task, mainVars>>

\* a headline of twelve characters, and the anchors a page can hold: an
\* image link (no text), a menu entry of two characters that occurs in the
\* headline, the headline cut to ten characters, the headline in capitals
\* and blanks, another headline
LongHeadline == [n \in 1..12 |-> Letters[n]]

PageLinks ==
    { Anchor(<<>>, Abs(Path(1))),
      Anchor(<<"b", "c">>, Abs(Path(2))),
      Anchor(SubSeq(LongHeadline, 1, 10), Abs(Path(3))),
      Anchor(<<" ", "A", "B", "C">> \o SubSeq(LongHeadline, 4, 12) \o <<" ">>,
             Abs(Path(4))),
      Anchor([n \in 1..12 |-> "q"], Abs(Path(5))) }

\* the news panels a listing can hold: an article in relative and in
\* absolute form, an article dated 31.02.2025, an article of another host,
\* a panel without article link, panels whose parsing raises
NewsPanels ==
    { Panel(Path(1), Dotted(Today)),
      Panel(Abs(Path(1)), Dotted(Today - 1)),
      Panel(Path(2), Feb31),
      Panel(<<OtherHost>> \o Path(1), NoMatch),
      Panel(None, NoMatch),
      RaisingPanel(Path(1), Dotted(Today), "early"),
      RaisingPanel(Path(2), Dotted(Today), "late") }

MaxPanels == 3  \* the number of news panels of a listing

PanelLists == UNION {[1..n -> NewsPanels] : n \in 0..MaxPanels}

ExtractArticlesFromHtml(panels) ==
    /\ call = NoCall
    /\ call' = Called("_extract_articles_from_html", panels,
                      _extract_articles_from_html(panels))
    /\ UNCHANGED <<storeVars, runVars, nav, task, mainVars>>

\* the caller goes on
Forget ==
    /\ call # NoCall
    /\ call' = NoCall
    /\ UNCHANGED <<storeVars, runVars, nav, task, mainVars>>

MaxLinks == 2   \* the number of anchors of a page

LinkLists == UNION {[1..n -> PageLinks] : n \in 0..MaxLinks}

FindHeadlineInHtml(allLinks, headline) ==
    /\ call = NoCall
    /\ call' = Called("_find_headline_in_html", <<allLinks, headline>>,
                      _find_headline_in_html(allLinks, headline))
    /\ UNCHANGED <<storeVars, runVars, nav, task, mainVars>>

(***************************************************************************)
(* main.py.  The process is started with at most one argument; main        *)
(* dispatches to test_connections or run_pipeline.  The services behind    *)
(* the steps (feed, Browserless, OpenAI, R2, Telegram) answer or raise as  *)
(* they please.  The exit code is that of asyncio.run(main()): the         *)
(* argument of sys.exit, 1 for an exception that leaves main, 0 when main  *)
(* returns.                                                                *)
(***************************************************************************)
MaxFeed == 2    \* the number of articles the feed holds

NoArg == ""     \* len(sys.argv) == 1
Args == {NoArg, "--test", "--rss-only", "--help", "--bogus"}

NoExit == 0 - 1     \* the process is running

\* the feed, newest article first
Feeds == {[k \in 1..n |-> [id |-> n + 1 - k, scrape_success |-> FALSE]] : n \in 0..MaxFeed}

IdleCli ==
    [phase |-> "start", arg |-> NoArg, skip_scraping |-> FALSE, endpoint |-> FALSE,
     i |-> 0, passed |-> 0, failed |-> 0,
     feed |-> <<>>, articles |-> <<>>, scraper |-> "none",
     summarized |-> <<>>, stored |-> FALSE, handed |-> FALSE, digest |-> <<>>,
     errors |-> {}, exit |-> NoExit]

\* "if len(sys.argv) > 1: arg = sys.argv[1] ..."; endpoint: whether
\* BROWSER_PLAYWRIGHT_ENDPOINT is set
Main(arg, endpoint) ==
    /\ cli.phase = "start"
    /\ LET c == [cli EXCEPT !.arg = arg, !.endpoint = endpoint]
       IN  cli' = IF arg = "--test" THEN [c EXCEPT !.phase = "test", !.i = 1]
                  ELSE IF arg = "--rss-only"
                  THEN [c EXCEPT !.phase = "rss", !.skip_scraping = TRUE]
                  ELSE IF arg = "--help" THEN [c EXCEPT !.phase = "exit", !.exit = 0]
                  ELSE IF arg = NoArg THEN [c EXCEPT !.phase = "rss"]
                  ELSE [c EXCEPT !.phase = "exit", !.exit = 1]
    /\ UNCHANGED <<storeVars, runVars, nav, call, task, res>>

\* the i-th test of test_connections (Telegram, R2, OpenAI, Browserless):
\* the service answers with a true value, with a false one, or the test
\* raises; the Browserless test is left out without endpoint, and its
\* scraper.close() can raise after the test has passed
TestOutcomes == {"True", "False", "raised", "close raised"}

TestConnection(outcome) ==
    /\ cli.phase = "test"
    /\ cli.i \in 1..4
    /\ outcome = "close raised" => (cli.i = 4 /\ cli.endpoint)
    /\ cli' = IF cli.i = 4 /\ ~cli.endpoint THEN [cli EXCEPT !.i = @ + 1]
              ELSE [cli EXCEPT !.i = @ + 1,
                        !.passed = IF outcome \in {"True", "close raised"}
                                   THEN @ + 1 ELSE @,
                        !.failed = IF outcome \in {"False", "raised", "close raised"}
                                   THEN @ + 1 ELSE @]
    /\ UNCHANGED <<storeVars, runVars, nav, call, task, res>>

\* "return results['failed'] == 0"; "sys.exit(0 if success else 1)"
TestReturn ==
    /\ cli.phase = "test"
    /\ cli.i = 5
    /\ cli' = [cli EXCEPT !.phase = "exit", !.exit = IF cli.failed = 0 THEN 0 ELSE 1]
    /\ UNCHANGED <<storeVars, runVars, nav, call, task, res>>

\* "except Exception: ... raise" of run_pipeline with its finally clause:
\* the scraper, if there is one, is closed, and the exception leaves main
Aborted(c, step) ==
    [c EXCEPT !.phase = "exit", !.exit = 1, !.errors = @ \cup {step},
              !.scraper = IF @ = "open" THEN "closed" ELSE @]

\* Step 1: fetch_rss_feed; "if not articles: return"
FetchRssFeed ==
    /\ cli.phase = "rss"
    /\ \/ \E feed \in Feeds :
             cli' = IF feed = <<>> THEN [cli EXCEPT !.phase = "exit", !.exit = 0]
                    ELSE [cli EXCEPT !.phase = "scrape", !.feed = feed,
                                     !.articles = feed]
       \/ cli' = Aborted(cli, "rss")
    /\ UNCHANGED <<storeVars, runVars, nav, call, task, res>>

\* Step 2: scraper.scrape_articles(articles) yields the articles with their
\* scrape_success flags, or raises and leaves articles as the feed gave them
ScrapeArticles ==
    /\ cli.phase = "scrape"
    /\ IF ~cli.skip_scraping /\ cli.endpoint
       THEN \/ \E flags \in [1..Len(cli.articles) -> BOOLEAN] :
                 cli' = [cli EXCEPT !.phase = "llm", !.scraper = "open",
                            !.articles = [k \in 1..Len(cli.articles) |->
                                [cli.articles[k] EXCEPT !.scrape_success = flags[k]]]]
            \/ cli' = [cli EXCEPT !.phase = "llm", !.scraper = "open",
                                  !.errors = @ \cup {"scrape"}]
       ELSE cli' = [cli EXCEPT !.phase = "llm"]
    /\ UNCHANGED <<storeVars, runVars, nav, call, task, res>>

\* "llm = create_llm()", outside every inner try
CreateLlm ==
    /\ cli.phase = "llm"
    /\ \/ cli' = [cli EXCEPT !.phase = "summarize", !.i = 1]
       \/ cli' = Aborted(cli, "llm")
    /\ UNCHANGED <<storeVars, runVars, nav, call, task, res>>

\* one pass of the loop of Step 3: the summary, or on an exception the
\* article with the fallback summary, is appended
Summarized_MutDrop(summarized_articles, article, ok) ==
    IF ok THEN Append(summarized_articles,
                      [id |-> article.id, scrape_success |-> article.scrape_success,
                       ai_summary |-> "llm"])
    ELSE summarized_articles

Summarized(summarized_articles, article, ok) ==
    Append(summarized_articles,
           [id |-> article.id, scrape_success |-> article.scrape_success,
            ai_summary |-> IF ok THEN "llm" ELSE "fallback"])

SummarizeArticle ==
    /\ cli.phase = "summarize"
    /\ cli.i <= Len(cli.articles)
    /\ \E ok \in BOOLEAN :
          cli' = [cli EXCEPT !.i = @ + 1,
                     !.summarized = Summarized(@, cli.articles[cli.i], ok),
                     !.errors = IF ok THEN @ ELSE @ \cup {"summary"}]
    /\ UNCHANGED <<storeVars, runVars, nav, call, task, res>>

\* Step 4: R2Storage().save_articles(storage_articles), in a try of its own
SaveArticles ==
    /\ cli.phase = "summarize"
    /\ cli.i > Len(cli.articles)
    /\ \/ cli' = [cli EXCEPT !.phase = "telegram", !.stored = TRUE]
       \/ cli' = [cli EXCEPT !.phase = "telegram", !.errors = @ \cup {"r2"}]
    /\ UNCHANGED <<storeVars, runVars, nav, call, task, res>>

\* Step 5: TelegramBot() raises; or send_digest(summarized_articles) is
\* called and returns, reports failed messages, or raises
SendOutcomes == {"bot raised", "sent", "some failed", "raised"}

SendDigest(outcome) ==
    /\ cli.phase = "telegram"
    /\ cli' = IF outcome = "bot raised"
              THEN [cli EXCEPT !.phase = "finally", !.errors = @ \cup {"telegram"}]
              ELSE [cli EXCEPT !.phase = "finally", !.handed = TRUE,
                               !.digest = cli.summarized,
                               !.errors = IF outcome = "sent" THEN @
                                          ELSE @ \cup {"telegram"}]
    /\ UNCHANGED <<storeVars, runVars, nav, call, task, res>>

\* "finally: if scraper: await scraper.close()", then main returns; a
\* close() that raises leaves main as an exception
PipelineEnd ==
    /\ cli.phase = "finally"
    /\ \/ cli' = [cli EXCEPT !.phase = "exit", !.exit = 0,
                             !.scraper = IF @ = "open" THEN "closed" ELSE @]
       \/ /\ cli.scraper = "open"
          /\ cli' = [cli EXCEPT !.phase = "exit", !.exit = 1, !.scraper = "closed",
                                !.errors = @ \cup {"close"}]
    /\ UNCHANGED <<storeVars, runVars, nav, call, task, res>>

(***************************************************************************)
(* Pages, contexts and the tracker of one scraper object: the try/finally  *)
(* skeleton of fetch_articles of both scrapers, and close().  Every await  *)
(* on the browser or the pool returns or raises.  page, context: what      *)
(* exists in the browser; bound: whether fetch_articles holds them in its  *)
(* local variables; page_closes, context_closes, tracker_closes: the calls *)
(* of close() on them; closes: the calls of the scraper's close().         *)
(***************************************************************************)
MaxCloses == 2  \* how often close() is called on one scraper

IdleRes ==
    [phase |-> "idle", adapter |-> "", page |-> "none", context |-> "none",
     bound |-> FALSE, page_closes |-> 0, context_closes |-> 0,
     exit |-> "", raised |-> FALSE,
     tracker |-> "none", tracker_closes |-> 0, closes |-> 0]

\* "await self._ensure_tracker()", before the try block: self.tracker is
\* assigned before connect() is awaited
_ensure_tracker(a, ok) ==
    /\ res.phase = "idle"
    /\ res' = IF ok THEN [res EXCEPT !.phase = "create", !.adapter = a, !.tracker = "set"]
              ELSE [res EXCEPT !.phase = "returned", !.adapter = a, !.tracker = "set",
                               !.raised = TRUE]
    /\ UNCHANGED <<storeVars, runVars, nav, call, task, cli>>

\* japan_architects: "page = await self._create_page()" and
\* "await page.set_extra_http_headers(...)" stand in the outer try, before
\* the try whose finally clause closes the page.  landezine: "page, context
\* = await self._create_stealth_page()" binds both only if new_context,
\* new_page, add_init_script and route have all returned.
CreateOutcomes == {"nothing", "context only", "page, then raised", "created"}

CreatePage(outcome) ==
    /\ res.phase = "create"
    /\ outcome = "context only" => res.adapter = LZ
    /\ LET ctx == IF res.adapter = LZ /\ outcome # "nothing" THEN "open" ELSE "none"
           pg == IF outcome \in {"page, then raised", "created"} THEN "open" ELSE "none"
       IN  res' = IF outcome = "created"
                  THEN [res EXCEPT !.phase = "body", !.page = pg, !.context = ctx,
                                   !.bound = TRUE]
                  ELSE [res EXCEPT !.phase = "returned", !.page = pg, !.context = ctx,
                                   !.exit = "exception"]
    /\ UNCHANGED <<storeVars, runVars, nav, call, task, cli>>

\* the statements under the finally clause end by "return new_articles",
\* by an early "return []", or by an exception
BodyExits == {"return", "early return", "exception"}

Body(exit) ==
    /\ res.phase = "body"
    /\ res' = [res EXCEPT !.phase = "finally", !.exit = exit]
    /\ UNCHANGED <<storeVars, runVars, nav, call, task, cli>>

\* japan_architects: "finally: await page.close()", inside the outer try.
\* landezine: "finally: if page: await page.close(); if context: await
\* context.close()", after the except clause: a close() that raises leaves
\* fetch_articles, and what follows it in the clause is not run.
FinallyOutcomes == {"closed", "page.close raised", "context.close raised"}

Finally(outcome) ==
    /\ res.phase = "finally"
    /\ outcome = "context.close raised" => res.adapter = LZ
    /\ res' = IF res.adapter = JA
              THEN [res EXCEPT !.phase = "returned", !.page_closes = @ + 1,
                               !.page = IF outcome = "closed" THEN "closed" ELSE @]
              ELSE IF outcome = "page.close raised"
              THEN [res EXCEPT !.phase = "returned", !.page_closes = @ + 1,
                               !.raised = TRUE]
              ELSE [res EXCEPT !.phase = "returned", !.page_closes = @ + 1,
                               !.page = "closed", !.context_closes = @ + 1,
                               !.context = IF outcome = "closed" THEN "closed" ELSE @,
                               !.raised = (outcome # "closed")]
    /\ UNCHANGED <<storeVars, runVars, nav, call, task, cli>>

\* close() of both scrapers: "await super().close(); if self.tracker: await
\* self.tracker.close(); self.tracker = None"
CloseOutcomes == {"closed", "super().close raised", "tracker.close raised"}

ScraperClose(outcome) ==
    /\ res.phase = "returned"
    /\ res.closes < MaxCloses
    /\ outcome = "tracker.close raised" => res.tracker = "set"
    /\ res' = IF outcome = "super().close raised" THEN [res EXCEPT !.closes = @ + 1]
              ELSE [res EXCEPT !.closes = @ + 1,
                        !.tracker_closes = IF res.tracker = "set" THEN @ + 1 ELSE @,
                        !.tracker = IF outcome = "closed" THEN "none" ELSE @]
    /\ UNCHANGED <<storeVars, runVars, nav, call, task, cli>>


(***************************************************************************)
(* Specifications.  Spec: runs of both scrapers one after the other, the   *)
(* clock advancing between them.  SpecSweep: the same with calls of the    *)
(* retention sweep between the runs.  SpecStore: the operations of one     *)
(* ArticleTracker.  SpecNav: the calls of _navigate_with_retry.            *)
(***************************************************************************)
AllIdle == \A p \in Procs : pc[p] = "idle"

InitRuns ==
    /\ pc = [p \in Procs |-> "idle"]
    /\ run = [p \in Procs |-> IdleRun]
    /\ history = <<>>
    /\ faults = 0
    /\ nav = NavIdle
    /\ call = NoCall
    /\ task = [k \in Tasks |-> IdleTask]
    /\ cli = IdleCli
    /\ res = IdleRes

InitTracker ==
    /\ now = StartNow
    /\ pool = FALSE
    /\ initialized = FALSE
    /\ ret = [op |-> "none", source |-> None, arg |-> None, raised |-> FALSE,
              val |-> None, connected |-> FALSE, at |-> now, before |-> {}]

Init ==
    /\ \E w \in Worlds : seen_articles = w.store /\ listing = w.site
    /\ InitTracker
    /\ InitRuns

Next ==
    \/ AllIdle /\ JA_FetchListing(1)
    \/ JA_Dedup(1)
    \/ JA_Persist(1)
    \/ AllIdle /\ LZ_FetchListing(1)
    \/ LZ_Dedup(1)
    \/ LZ_ProcessHeadline(1)
    \/ LZ_Persist(1)
    \/ Return(1)
    \/ AllIdle /\ Tick

Spec == Init /\ [][Next]_vars

\* the runs with calls of the retention sweep between them
InitSweep ==
    /\ seen_articles = SeededStore
    /\ listing = Site(JaPageShort, LzPageShort)
    /\ InitTracker
    /\ InitRuns

NextSweep ==
    \/ AllIdle /\ JA_FetchListing(1)
    \/ JA_Dedup(1)
    \/ JA_Persist(1)
    \/ AllIdle /\ LZ_FetchListing(1)
    \/ LZ_Dedup(1)
    \/ LZ_ProcessHeadline(1)
    \/ LZ_Persist(1)
    \/ Return(1)
    \/ AllIdle /\ \E s \in Sources, days \in SweepDays : CleanupOldArticles(s, days)
    \/ AllIdle /\ Tick

SpecSweep == InitSweep /\ [][NextSweep]_vars

InitStore ==
    /\ seen_articles = {}
    /\ InitTracker
    /\ listing = Site(JaPageShort, LzPageShort)
    /\ InitRuns

NextStore ==
    \/ Connect
    \/ Close
    \/ \E s \in Sources, u \in StoreUrls : IsNewArticle(s, u)
    \/ \E s \in Sources, urls \in UrlLists, guids \in GuidLists : MarkAsSeen(s, urls, guids)
    \/ \E s \in Sources, urls \in UrlLists : FilterNewArticles(s, urls)
    \/ \E s \in Sources, days \in CleanupDays : CleanupOldArticles(s, days)
    \/ \E s \in Sources \cup {NoSource} : GetStats(s)
    \/ \E s \in Sources, limit \in RecentLimits : GetRecentArticles(s, limit)
    \/ Tick

SpecStore == InitStore /\ [][NextStore]_vars

\* two runs at the same time: the steps of the one between the steps of
\* the other
NextOverlap ==
    \/ \E p \in Procs : JA_FetchListing(p)
    \/ \E p \in Procs : JA_Dedup(p)
    \/ \E p \in Procs : JA_Persist(p)
    \/ \E p \in Procs : LZ_FetchListing(p)
    \/ \E p \in Procs : LZ_Dedup(p)
    \/ \E p \in Procs : LZ_ProcessHeadline(p)
    \/ \E p \in Procs : LZ_Persist(p)
    \/ \E p \in Procs : Return(p)
    \/ Tick

SpecOverlap == InitSweep /\ [][NextOverlap]_vars

\* two tasks in mark_as_seen at the same time
NextRace ==
    \/ Connect
    \/ \E k \in Tasks, s \in Sources, urls \in UrlLists : TaskBegin(k, s, urls)
    \/ \E k \in Tasks : TaskStatement(k)
    \/ \E k \in Tasks : TaskEnd(k)
    \/ Tick

SpecRace == InitStore /\ [][NextRace]_vars

\* the functions of the scrapers on inputs of their own
NextFn ==
    \/ \E text \in PanelDates : IsWithinAgeLimit(DateIso(text))
    \/ \E published \in ParsedDates : DaysOldTest(published)
    \/ \E panels \in PanelLists : ExtractArticlesFromHtml(panels)
    \/ \E allLinks \in LinkLists, headline \in {LongHeadline, <<" ">> \o LongHeadline} :
          FindHeadlineInHtml(allLinks, headline)
    \/ Forget
    \/ Tick

SpecFn == InitStore /\ [][NextFn]_vars

\* the process of main.py
NextMain ==
    \/ \E arg \in Args, endpoint \in BOOLEAN : Main(arg, endpoint)
    \/ \E outcome \in TestOutcomes : TestConnection(outcome)
    \/ TestReturn
    \/ FetchRssFeed
    \/ ScrapeArticles
    \/ CreateLlm
    \/ SummarizeArticle
    \/ SaveArticles
    \/ \E outcome \in SendOutcomes : SendDigest(outcome)
    \/ PipelineEnd

SpecMain == InitStore /\ [][NextMain]_vars

\* one tracker call, then one run, on a table in which both sources hold
\* the same identifiers
PartitionStore == SeededStore \cup {OldRow(LZ, U1), OldRow(JA, U2)}

InitPartition ==
    /\ seen_articles = PartitionStore
    /\ listing = Site(JaPageShort, LzPageShort)
    /\ InitTracker
    /\ InitRuns

NextPartition ==
    \/ /\ AllIdle /\ history = <<>> /\ ret.op = "none"
       /\ \E s \in Sources, urls \in UrlLists, guids \in GuidLists : MarkAsSeen(s, urls, guids)
    \/ /\ AllIdle /\ history = <<>> /\ ret.op = "none"
       /\ \E s \in Sources, days \in CleanupDays : CleanupOldArticles(s, days)
    \/ AllIdle /\ history = <<>> /\ JA_FetchListing(1)
    \/ JA_Dedup(1)
    \/ JA_Persist(1)
    \/ AllIdle /\ history = <<>> /\ LZ_FetchListing(1)
    \/ LZ_Dedup(1)
    \/ LZ_ProcessHeadline(1)
    \/ LZ_Persist(1)
    \/ Return(1)

SpecPartition == InitPartition /\ [][NextPartition]_vars

\* what one scraper object holds, and the scraper of run_pipeline
NextRelease ==
    \/ cli.phase = "start" /\ \E a \in Sources, ok \in BOOLEAN : _ensure_tracker(a, ok)
    \/ \E outcome \in CreateOutcomes : CreatePage(outcome)
    \/ \E exit \in BodyExits : Body(exit)
    \/ \E outcome \in FinallyOutcomes : Finally(outcome)
    \/ \E outcome \in CloseOutcomes : ScraperClose(outcome)
    \/ res.phase = "idle" /\ \E arg \in {NoArg, "--rss-only"}, endpoint \in BOOLEAN : Main(arg, endpoint)
    \/ FetchRssFeed
    \/ ScrapeArticles
    \/ CreateLlm
    \/ SummarizeArticle
    \/ SaveArticles
    \/ \E outcome \in SendOutcomes : SendDigest(outcome)
    \/ PipelineEnd

SpecRelease == InitStore /\ [][NextRelease]_vars

\* one call of mark_as_seen, statement by statement
MarkStore == {OldRow(LZ, U1)}

InitMark ==
    /\ seen_articles = MarkStore
    /\ InitTracker
    /\ listing = Site(JaPageShort, LzPageShort)
    /\ InitRuns

NextMark ==
    \/ Connect
    \/ \E s \in Sources, urls \in UrlLists : TaskBegin(1, s, urls)
    \/ \E s \in Sources, urls \in UrlLists, guids \in GuidLists : TaskBeginGuids(1, s, urls, guids)
    \/ TaskStatement(1)
    \/ TaskEnd(1)
    \/ Tick

SpecMark == InitMark /\ [][NextMark]_vars

\* the calls of _navigate_with_retry
NextNav ==
    \/ \E max_retries \in 0..MaxRetriesArg : _navigate_with_retry(max_retries)
    \/ \E resp \in Responses : NavAttempt(resp)
    \/ NavExhausted
    \/ NavReturn

SpecNav == InitStore /\ [][NextNav]_vars


(***************************************************************************)
(* Properties.                                                             *)
(***************************************************************************)
Ids(batch) == {batch[k].id : k \in 1..Len(batch)}
IdSeq(batch) == [k \in 1..Len(batch) |-> batch[k].id]

Cap(a) == IF a = JA THEN MAX_NEW_ARTICLES ELSE max_new
MaxAge(a) == IF a = JA THEN JA_MAX_ARTICLE_AGE_DAYS ELSE LZ_MAX_ARTICLE_AGE_DAYS

\* isFresh of the design: not fresh when the whole days since publication
\* exceed maxAgeDays; an unknown date is fresh
NotFresh(published, maxAgeDays, t) ==
    published # NoDate /\ (t - published) \div TicksPerDay > maxAgeDays

UrlA == Abs(Path(1))
UrlB == Abs(Path(2))
UrlC == Abs(Path(3))

\* C1: Idempotence.  When a run of a source has completed (reached its
\* persist step) and another run of that source follows against the same
\* listing, the later run returns an empty batch.
C1_Idempotence ==
    \A j \in 1..Len(history), k \in 1..Len(history) :
        (j < k /\ history[j].source = history[k].source /\ history[j].persisted)
            => history[k].batch = <<>>

C1_Witness ==
    /\ Len(history) = 2
    /\ history[1].source = history[2].source
    /\ history[1].persisted /\ history[1].batch # <<>>
    /\ history[2].ids = history[1].ids
    /\ ~history[2].error /\ ~history[2].raised

\* C2: No-loss.  When a run has passed its persist step, every identifier it
\* extracted from the listing (new or seen, fresh or rejected as old, within
\* the cap or beyond it) has a record: is_new_article is false for it.
C2_NoLoss ==
    \A p \in Procs :
        (pc[p] = "done" /\ run[p].persisted) =>
            \A k \in 1..Len(run[p].ids) :
                ~is_new_article(seen_articles, run[p].adapter, run[p].ids[k])

C2_Witness ==
    \E p \in Procs :
        /\ pc[p] = "done" /\ run[p].persisted
        /\ run[p].rejected # <<>>
        /\ Len(run[p].new_all) < Len(run[p].ids)
        /\ run[p].result # <<>>

\* C3: Freshness monotonicity.  No article of a returned batch has a
\* publication date older than the adapter's MAX_ARTICLE_AGE_DAYS, and once
\* the run has persisted, the identifier of every candidate it rejected as
\* old (and of every old entry of a japan-architects listing) has a record.
C3_FreshnessMonotonicity ==
    \A p \in Procs :
        pc[p] = "done" =>
            LET r == run[p]
                a == r.adapter
            IN  /\ \A k \in 1..Len(r.result) :
                       ~NotFresh(r.result[k].published, MaxAge(a), now)
                /\ r.persisted =>
                       \A k \in 1..Len(r.rejected) :
                           HasRow(seen_articles, a, r.rejected[k])
                /\ a = JA =>
                       \A k \in 1..Len(r.extracted) :
                           NotFresh(r.extracted[k].date, MaxAge(JA), now) =>
                               /\ r.extracted[k].url \notin Ids(r.result)
                               /\ r.persisted =>
                                      HasRow(seen_articles, JA, r.extracted[k].url)

C3_Witness ==
    \E p \in Procs :
        /\ pc[p] = "done" /\ run[p].persisted
        /\ run[p].rejected # <<>>
        /\ run[p].result # <<>>
        /\ \E k \in 1..Len(run[p].extracted) :
               /\ run[p].adapter = JA
               /\ NotFresh(run[p].extracted[k].date, MaxAge(JA), now)
               /\ run[p].extracted[k].url \in Range(run[p].new_all)

\* C4: Dedup output.  The candidates a japan-architects run passes on from
\* its dedup step are exactly the extracted candidates without record for
\* the source, in listing order; for the listing [A, B, C] with B seen and
\* C 40 days old a run that does not fail delivers [A] and leaves records
\* for A, B and C.
C4_DedupOutput ==
    \A p \in Procs :
        /\ (pc[p] = "persist" /\ run[p].adapter = JA) =>
               run[p].new_all =
                   SelectSeq(run[p].ids, LAMBDA u : ~HasRow(seen_articles, JA, u))
        /\ (pc[p] = "done" /\ run[p].adapter = JA /\ run[p].persisted
               /\ ~run[p].error
               /\ run[p].ids = <<UrlA, UrlB, UrlC>> /\ run[p].new_all = <<UrlA, UrlC>>) =>
               /\ IdSeq(run[p].result) = <<UrlA>>
               /\ \A u \in {UrlA, UrlB, UrlC} : HasRow(seen_articles, JA, u)

C4_Witness ==
    \E p \in Procs :
        /\ pc[p] = "done" /\ run[p].adapter = JA /\ run[p].persisted
        /\ run[p].ids = <<UrlA, UrlB, UrlC>>
        /\ run[p].new_all = <<UrlA, UrlC>>
        /\ IdSeq(run[p].result) = <<UrlA>>

Published(a, id) ==
    IF a = JA
    THEN LET ex == _extract_articles_from_html(listing[JA])
             hit == {k \in 1..Len(ex) : ex[k].url = id}
         IN  IF hit = {} THEN NoDate ELSE ex[CHOOSE k \in hit : TRUE].date
    ELSE LET hd == _find_headline_in_html(listing[LZ].anchors, id)
         IN  IF hd.found /\ hd.link \in DOMAIN listing[LZ].details
             THEN _parse_date(DateText(listing[LZ].details[hd.link]))
             ELSE NoDate

\* C6: No silent drop.  With every fetch succeeding, a fresh item that was
\* unseen before a run is not recorded as seen by that run unless the run
\* delivers it.
C6_NoSilentDrop ==
    \A p \in Procs :
        (pc[p] = "done" /\ faults = 0) =>
            \A k \in 1..Len(run[p].new_all) :
                LET id == run[p].new_all[k]
                IN  (/\ ~NotFresh(Published(run[p].adapter, id), MaxAge(run[p].adapter), now)
                     /\ HasRow(seen_articles, run[p].adapter, id))
                        => id \in Ids(run[p].result)

\* C7: Per-run cap.  A run processes and delivers at most the adapter's cap
\* of new candidates (15 for japan_architects, 10 for landezine), and they
\* are the first new candidates in listing order.
C7_PerRunCap ==
    \A p \in Procs :
        pc[p] # "idle" =>
            LET r == run[p]
                cap == Cap(r.adapter)
            IN  /\ r.cands = SubSeq(r.new_all, 1, Min(Len(r.new_all), cap))
                /\ Len(r.new_articles) + Len(r.rejected) <= cap
                /\ Ids(r.new_articles) \subseteq Range(r.cands)
                /\ Range(r.rejected) \subseteq Range(r.cands)
                /\ Len(r.result) <= cap

C7_Witness ==
    \E p \in Procs :
        /\ pc[p] = "done" /\ run[p].persisted
        /\ Len(run[p].new_all) > Cap(run[p].adapter)
        /\ Len(run[p].result) > 0

\* C8: Cap excess carries over.  When a run finds more new candidates than
\* the cap, the candidates beyond the cap have no record after the run.
C8_CapExcessUnseen ==
    \A p \in Procs :
        (pc[p] = "done" /\ run[p].persisted) =>
            \A k \in (Cap(run[p].adapter) + 1)..Len(run[p].new_all) :
                ~HasRow(seen_articles, run[p].adapter, run[p].new_all[k])

\* C9: is_new_article(source_id, url) returns true exactly when the table
\* holds no row for (source_id, url).
C9_IsNewIffNoRecord ==
    (ret.op = "is_new_article" /\ ~ret.raised) =>
        (ret.val <=> ~HasRow(seen_articles, ret.source, ret.arg))

C9_Witness ==
    /\ ret.op = "is_new_article" /\ ~ret.raised
    /\ ret.val = FALSE
    /\ \E r \in seen_articles : r.source_id # ret.source /\ r.article_url = ret.arg

\* C10: Batch/single equivalence.  filter_new_articles(source, urls)
\* returns the elements u of urls with is_new_article(source, u), in input
\* order and with their repetitions.
C10_BatchSingleEquivalence ==
    (ret.op = "filter_new_articles" /\ ~ret.raised) =>
        ret.val = SelectSeq(ret.arg,
                            LAMBDA u : is_new_article(seen_articles, ret.source, u))

C10_Witness ==
    /\ ret.op = "filter_new_articles" /\ ~ret.raised
    /\ ret.arg = <<U2, U1, U2>>
    /\ ret.val = <<U2, U2>>

(***************************************************************************)
(* The store operations in detail.  ret.before is the table the call       *)
(* found, ret.at the time of the call, ret.connected whether the call got  *)
(* its connection.                                                         *)
(***************************************************************************)
Keys(db) == {<<r.source_id, r.article_url>> : r \in db}

\* C11: mark_as_seen is idempotent and keeps (source_id, identifier) unique.
\* The table never holds two records with the same source_id and
\* article_url, and a mark_as_seen call that got its connection raises only
\* for urls and guids of different length, never for an identifier that is
\* already recorded or repeated in the list.
C11_MarkAsSeenUnique ==
    /\ \A r1 \in seen_articles, r2 \in seen_articles :
          (r1.source_id = r2.source_id /\ r1.article_url = r2.article_url) => r1 = r2
    /\ (ret.op = "mark_as_seen" /\ ret.raised /\ ret.connected) =>
          (ret.arg[2].given /\ Len(ret.arg[1]) # Len(ret.arg[2].list))

C11_Witness ==
    /\ ret.op = "mark_as_seen" /\ ~ret.raised
    /\ ret.arg[1] = <<U2, U1, U2>>
    /\ ret.arg[2] = Guids(<<U2, U1, U1>>)
    /\ HasRow(ret.before, ret.source, U2)
    /\ ret.at > StartNow
    /\ Cardinality({r \in seen_articles : r.source_id = ret.source}) = 2

\* C12: mark_as_seen returns the number of identifiers that the call newly
\* inserted: the identifiers of its list that had no record before the call.
C12_ReturnsNewlyInserted ==
    (ret.op = "mark_as_seen" /\ ~ret.raised) =>
        ret.val = Cardinality({u \in Range(ret.arg[1]) :
                                  ~HasRow(ret.before, ret.source, u)})

\* the record r0 after an observation at time t: only last_checked moved
Observed(r0, t) == [r0 EXCEPT !.last_checked = t]

\* mark_as_seen on a recorded identifier
C13_CallPart ==
    (ret.op = "mark_as_seen" /\ ~ret.raised) =>
        \A r0 \in ret.before :
            (r0.source_id = ret.source /\ r0.article_url \in Range(ret.arg[1]))
                => Observed(r0, ret.at) \in seen_articles

\* a run that returned normally, on the recorded identifiers of its listing
C13_RunPart ==
    \A p \in Procs :
        (pc[p] = "done" /\ ~run[p].error /\ ~run[p].raised) =>
            \A r0 \in run[p].before :
                (r0.source_id = run[p].adapter /\ r0.article_url \in Range(run[p].ids))
                    => Observed(r0, now) \in seen_articles

\* C13: For an identifier that already has a record, every later
\* observation (a mark_as_seen call, or an adapter run whose listing contains
\* the identifier) sets last_checked to the time of the observation and
\* leaves first_seen and the stored guid as they were.
C13_LastCheckedOnObservation == C13_CallPart /\ C13_RunPart

\* C14: Records are never deleted except by the retention sweep.  Under
\* every operation other than cleanup_old_articles (is_new_article,
\* filter_new_articles, mark_as_seen, get_stats, get_recent_articles,
\* connect, close) every (source_id, identifier) that had a record before the
\* call has one after it.
C14_NoDeletionExceptSweep ==
    ret.op \in {"is_new_article", "filter_new_articles", "mark_as_seen",
                "get_stats", "get_recent_articles", "connect", "close"}
        => Keys(ret.before) \subseteq Keys(seen_articles)

C14_Witness ==
    /\ ret.op = "mark_as_seen" /\ ~ret.raised
    /\ ret.arg[1] = <<U1>>
    /\ Keys(ret.before) = {<<ret.source, U1>>, <<ret.source, U2>>}
    /\ Keys(seen_articles) = Keys(ret.before)

\* C15: cleanup_old_articles(source_id, days) deletes exactly the records
\* of source_id whose first_seen is more than days days before the call,
\* returns their number, and leaves every other record as it was.
C15_CleanupDeletesOld ==
    (ret.op = "cleanup_old_articles" /\ ret.connected) =>
        LET old == {r \in ret.before :
                       /\ r.source_id = ret.source
                       /\ r.first_seen < ret.at - ret.arg * TicksPerDay}
        IN  /\ ~ret.raised
            /\ seen_articles = ret.before \ old
            /\ ret.val = Cardinality(old)

(***************************************************************************)
(* Navigation with retry.                                                  *)
(***************************************************************************)
SoftBlocked(resp) == ~resp.exc /\ resp.status = 403

\* the true host of a URL is its first element
OnExpectedHost(url) == url # <<>> /\ Head(url) = Host

\* C16: Retry bound.  When every navigation attempt is soft-blocked (403),
\* a call with max_retries = N makes exactly N + 1 attempts (4 for N = 3) and
\* then reports failure.
C16_RetryBound ==
    (nav.phase = "done" /\ \A k \in 1..Len(nav.log) : SoftBlocked(nav.log[k])) =>
        /\ Len(nav.log) = nav.max_retries + 1
        /\ nav.result = "False"

\* base * 2^k
RECURSIVE Doubled(_, _)
Doubled(base, k) == IF k = 0 THEN base ELSE 2 * Doubled(base, k - 1)

BackoffBase == 3    \* the delay after the first failed attempt
CoolDown == 5       \* the delay after a soft block
LargestCap == 200

\* C17: Backoff schedule.  The delay before the retry that follows failed
\* attempt k is base * 2^k up to some cap, and after a soft block a fixed
\* cool-down is inserted before the next attempt.
C17_BackoffSchedule ==
    /\ \E cap \in BackoffBase..LargestCap :
          \A i \in 1..Len(nav.sleeps) :
              nav.sleeps[i].kind = "error" =>
                  nav.sleeps[i].secs = Min(Doubled(BackoffBase, nav.sleeps[i].after), cap)
    /\ \A i \in 1..Len(nav.sleeps) :
          nav.sleeps[i].kind = "cooldown" => nav.sleeps[i].secs = CoolDown

\* C18: Response classification.  Success is reported only for an attempt
\* whose response status is 2xx and whose final URL is on the expected host;
\* a 403 response or an off-host redirect is never reported as success.
C18_ResponseClassification ==
    (nav.phase = "done" /\ nav.result = "True") =>
        LET resp == nav.log[Len(nav.log)]
        IN  /\ resp.status \in 200..299
            /\ OnExpectedHost(resp.url)

(***************************************************************************)
(* Failures of a run.                                                      *)
(***************************************************************************)
\* C19: Error containment at the source boundary.  fetch_articles never
\* propagates an exception to its caller: every failure inside the run,
\* failure to establish the store connection included, ends the run with an
\* empty result.
C19_ErrorContainment ==
    /\ \A p \in Procs :
          pc[p] = "done" =>
              /\ ~run[p].raised
              /\ run[p].error => run[p].result = <<>>
    /\ \A k \in 1..Len(history) : ~history[k].raised

\* C20: No partial state.  Identifiers are persisted only after the run's
\* delivery batch has been constructed, and a run that ends in its error
\* path (returns an empty list because of an exception) leaves the table as
\* it was when the run started.
C20_NoPartialState ==
    \A p \in Procs :
        /\ pc[p] \in {"dedup", "persist", "process"} =>
               Keys(seen_articles) = Keys(run[p].before)
        /\ (pc[p] = "done" /\ run[p].error) => seen_articles = run[p].before

(***************************************************************************)
(* Dates and freshness.                                                    *)
(***************************************************************************)
\* C21: Freshness predicate.  A dated candidate is fresh exactly when the
\* whole number of days between now and its publication timestamp is at
\* most maxAgeDays: _is_within_age_limit (30 days) and the days_old test of
\* landezine (2 days) decide every timestamp this way.
C21_FreshnessPredicate ==
    /\ (call.fn = "_is_within_age_limit" /\ call.arg[1] # NoDate) =>
           (call.out <=> ~NotFresh(call.arg[1], JA_MAX_ARTICLE_AGE_DAYS, call.arg[2]))
    /\ (call.fn = "days_old" /\ call.arg[1] # NoDate) =>
           (call.out.kept <=> ~NotFresh(call.arg[1], LZ_MAX_ARTICLE_AGE_DAYS, call.arg[2]))

\* the date text the site shows for an item: the panel that contributes the
\* URL, the detail page behind the anchor of the headline
RawDate(a, id) ==
    IF a = JA
    THEN LET hit == {k \in 1..Len(listing[JA]) :
                        /\ listing[JA][k].href # None
                        /\ urljoin(listing[JA][k].href) = id}
         IN  IF hit = {} THEN NoMatch
             ELSE listing[JA][CHOOSE k \in hit : \A j \in hit : k <= j].date
    ELSE LET hd == _find_headline_in_html(listing[LZ].anchors, id)
         IN  IF hd.found /\ hd.link \in DOMAIN listing[LZ].details
             THEN DateText(listing[LZ].details[hd.link])
             ELSE NoMatch

\* no date, or numbers that are no date of the calendar
UnknownDate(text) == text = NoMatch \/ ~ValidDate(text[3], text[2], text[1])

\* the run can build an article for the item
Resolves(a, id) ==
    \/ a = JA
    \/ LET hd == _find_headline_in_html(listing[LZ].anchors, id)
       IN  hd.found /\ hd.title # <<>> /\ hd.link \in DOMAIN listing[LZ].details

\* C22: Unknown date means fresh.  A candidate whose date is missing or
\* unparseable (a listing date such as 31.02.2025) gets a null timestamp
\* without the run failing, passes the freshness filter, and is delivered
\* when it is one of the new candidates the run processes.
C22_UnknownDateFresh ==
    \A p \in Procs :
        (pc[p] = "done" /\ faults = 0) =>
            /\ ~run[p].error /\ ~run[p].raised
            /\ \A k \in 1..Len(run[p].cands) :
                   LET id == run[p].cands[k]
                   IN  (Resolves(run[p].adapter, id)
                            /\ UnknownDate(RawDate(run[p].adapter, id))) =>
                           \E j \in 1..Len(run[p].result) :
                               /\ run[p].result[j].id = id
                               /\ run[p].result[j].published = NoDate

C22_Witness ==
    \E p \in Procs :
        /\ pc[p] = "done" /\ run[p].adapter = JA /\ run[p].persisted
        /\ faults = 0
        /\ RawDate(JA, Abs(Path(5))) = Feb31
        /\ RawDate(JA, Abs(Path(8))) = NoMatch
        /\ \E j \in 1..Len(run[p].result) :
               run[p].result[j] = Article(Abs(Path(5)), Abs(Path(5)), NoDate)
        /\ \E j \in 1..Len(run[p].result) :
               run[p].result[j] = Article(Abs(Path(8)), Abs(Path(8)), NoDate)

\* C23: Detail-page timestamp priority.  When the detail page carries both
\* an article:published_time meta tag and a date pattern in its body text,
\* the publication timestamp of the candidate is the one of the meta tag;
\* the body text is used only when the meta tag is absent.
C23_MetaTagFirst ==
    \A p \in Procs :
        run[p].adapter = LZ =>
            \A k \in 1..Len(run[p].new_articles) :
                LET article == run[p].new_articles[k]
                    d == listing[LZ].details[article.link]
                IN  article.published =
                        _parse_date(IF d.meta # NoMatch THEN d.meta ELSE d.body)

(***************************************************************************)
(* Headlines.                                                              *)
(***************************************************************************)
\* one text contains the other, both whitespace-normalized and case-folded
ContainsEitherWay(a, b) ==
    LET x == Lower(Collapse(Strip(a)))
        y == Lower(Collapse(Strip(b)))
    IN  Includes(x, y) \/ Includes(y, x)

StoredAbX == <<"a", "b", " ", "x">>

Qualifies(link, headline) ==
    LET linkText == Lower(Strip(link.text))
        searchText == Lower(Strip(headline))
    IN  /\ Len(linkText) >= 10
        /\ Includes(linkText, searchText) \/ Includes(searchText, linkText)

\* C25: Headline-to-link resolution.  _find_headline_in_html returns the
\* first anchor, in document order, whose text contains or is contained in
\* the headline (case-insensitive) and is at least 10 characters long; an
\* anchor with shorter or empty text is never the match.
C25_HeadlineToLink ==
    call.fn = "_find_headline_in_html" =>
        LET allLinks == call.arg[1]
            hits == {k \in 1..Len(allLinks) : Qualifies(allLinks[k], call.arg[2])}
        IN  IF hits = {} THEN ~call.out.found
            ELSE /\ call.out.found
                 /\ call.out.link = allLinks[CHOOSE k \in hits : \A j \in hits : k <= j].href

(***************************************************************************)
(* Concurrency.                                                            *)
(***************************************************************************)
BothDone == \A k \in Tasks : task[k].phase = "done"

\* C26: Upsert race safety.  When two tasks execute mark_as_seen for the
\* same (source_id, identifier) at the same time, in every interleaving of
\* their statements the table ends with one record for that pair, whose
\* first_seen is that of the insert that won, and neither call raises.
C26_UpsertRaceSafety ==
    /\ \A r1 \in seen_articles, r2 \in seen_articles :
          (r1.source_id = r2.source_id /\ r1.article_url = r2.article_url) => r1 = r2
    /\ \A k \in Tasks : ~task[k].raised
    /\ BothDone =>
          \A s \in Sources, u \in StoreUrls :
              LET rows == {r \in seen_articles : r.source_id = s /\ r.article_url = u}
                  callers == {k \in Tasks : task[k].source = s /\ u \in Range(task[k].urls)}
                  winners == {k \in callers : u \in task[k].won}
              IN  /\ Cardinality(rows) = Cardinality(winners)
                  /\ Cardinality(winners) <= 1
                  /\ (callers # {} /\ faults = 0) => Cardinality(rows) = 1
                  /\ \A r \in rows, k \in winners : r.first_seen = task[k].now

C26_Witness ==
    /\ BothDone
    /\ faults = 0
    /\ task[1].source = task[2].source
    /\ task[1].urls = <<U2, U1, U2>> /\ task[2].urls = <<U1>>
    /\ task[1].now < task[2].now
    /\ U1 \in task[2].won
    /\ Row(task[1].source, U1, U1, task[2].now) \in
           {[r EXCEPT !.last_checked = r.first_seen] : r \in seen_articles}
    /\ \E r \in seen_articles : r.article_url = U1 /\ r.last_checked < r.first_seen

\* C27: Overlapping runs deliver once.  When two runs of the same source
\* overlap in time against the same listing page, in every interleaving of
\* their dedup reads and persist writes each new item is in the delivered
\* batch of at most one of the two runs.
C27_OverlapDeliversOnce ==
    \A p \in Procs, q \in Procs :
        (p # q /\ pc[p] = "done" /\ pc[q] = "done"
             /\ run[p].adapter = run[q].adapter) =>
            Ids(run[p].result) \cap Ids(run[q].result) = {}

(***************************************************************************)
(* Extraction from the listing.                                            *)
(***************************************************************************)
\* the absolute form of a link
AbsoluteForm(href) ==
    IF Head(href) \in {Host, OtherHost} THEN href ELSE <<Host>> \o href

Linked(panels) == {k \in 1..Len(panels) : panels[k].href # None}

\* the first container, in page order, that links to the article of k
FirstOf(panels, k) ==
    CHOOSE j \in Linked(panels) :
        /\ AbsoluteForm(panels[j].href) = AbsoluteForm(panels[k].href)
        /\ \A i \in Linked(panels) :
               AbsoluteForm(panels[i].href) = AbsoluteForm(panels[k].href) => j <= i

Firsts(panels) == {k \in Linked(panels) : FirstOf(panels, k) = k}

EntryOf(panel) == [url |-> AbsoluteForm(panel.href), date |-> DateIso(panel.date)]

\* C28: In-page de-duplication.  The list _extract_articles_from_html
\* returns never holds two entries with the same URL, every URL of it is
\* absolute, and when several containers link to the same article (in
\* relative or absolute form) only the first of them in page order
\* contributes an entry.
C28_InPageDedup ==
    call.fn = "_extract_articles_from_html" =>
        LET panels == call.arg
            out == call.out
        IN  /\ \A i \in 1..Len(out), j \in 1..Len(out) :
                   i # j => out[i].url # out[j].url
            /\ \A i \in 1..Len(out) : Head(out[i].url) \in {Host, OtherHost}
            /\ (\A k \in 1..Len(panels) : panels[k].raises = "no") =>
                   /\ Len(out) = Cardinality(Firsts(panels))
                   /\ \A k \in Firsts(panels) :
                          out[Cardinality({j \in Firsts(panels) : j <= k})]
                              = EntryOf(panels[k])

C28_Witness ==
    /\ call.fn = "_extract_articles_from_html"
    /\ call.arg = << Panel(Path(1), Dotted(Today)),
                     Panel(Path(2), Feb31),
                     Panel(Abs(Path(1)), Dotted(Today - 1)) >>
    /\ call.out = << [url |-> Abs(Path(1)), date |-> Day(Today)],
                     [url |-> Abs(Path(2)), date |-> NoDate] >>

\* the panels with nothing raising
Healthy(panels) == [k \in 1..Len(panels) |-> [panels[k] EXCEPT !.raises = "no"]]

\* C29: Per-container failure isolation.  When the parsing of a listing
\* container raises, _extract_articles_from_html skips that container and
\* no other: every entry the page yields without the failure, except those
\* of the containers that raise, is still returned, in page order, and no
\* entry comes from a container that raised.
C29_ContainerIsolation ==
    call.fn = "_extract_articles_from_html" =>
        LET panels == call.arg
            out == call.out
            kept == {k \in Firsts(panels) : panels[k].raises = "no"}
            keptUrls == {AbsoluteForm(panels[k].href) : k \in kept}
            rest == SelectSeq(out, LAMBDA e : e.url \in keptUrls)
        IN  /\ Len(rest) = Cardinality(kept)
            /\ \A k \in kept :
                   rest[Cardinality({j \in kept : j <= k})] = EntryOf(panels[k])
            /\ \A i \in 1..Len(out) :
                   \E k \in Linked(panels) :
                       panels[k].raises = "no" /\ out[i] = EntryOf(panels[k])

C29_Witness ==
    /\ call.fn = "_extract_articles_from_html"
    /\ call.arg = << Panel(Abs(Path(1)), Dotted(Today - 1)),
                     RaisingPanel(Path(2), Dotted(Today), "late"),
                     Panel(<<OtherHost>> \o Path(1), NoMatch) >>
    /\ call.out = << [url |-> Abs(Path(1)), date |-> Day(Today - 1)],
                     [url |-> <<OtherHost>> \o Path(1), date |-> NoDate] >>

\* the listing of the adapter yields no candidate
EmptyListing(a) ==
    IF a = JA THEN Linked(listing[JA]) = {} ELSE listing[LZ].headlines = <<>>

\* C30: Empty extraction is not an error.  When the listing yields zero
\* containers or zero candidates (or the vision step zero headlines), and
\* nothing else fails, fetch_articles returns an empty list without entering
\* its error path and without changing the store.
C30_EmptyIsNotError ==
    \A p \in Procs :
        (pc[p] = "done" /\ faults = 0 /\ EmptyListing(run[p].adapter)) =>
            /\ ~run[p].error /\ ~run[p].raised
            /\ run[p].result = <<>>
            /\ ~run[p].persisted
            /\ seen_articles = run[p].before

C30_Witness ==
    \E p \in Procs :
        /\ pc[p] = "done" /\ faults = 0
        /\ run[p].adapter = JA /\ listing[JA] = JaPageEmpty
        /\ Len(history) = 1 /\ history[1].source = LZ /\ ~history[1].error
        /\ seen_articles = SeededStore

(***************************************************************************)
(* The process of main.py.                                                 *)
(***************************************************************************)
\* the run the argument selected went through without any failure
FullySucceeded ==
    /\ cli.arg \in {NoArg, "--test", "--rss-only", "--help"}
    /\ cli.failed = 0
    /\ cli.errors = {}

\* C31: CLI exit code.  The process exits with code 0 only when the
\* selected run fully succeeded: a --test run with a failed connection
\* test, an unknown argument, and a pipeline run in which a step failed
\* end with a non-zero exit code.
C31_ExitCode ==
    cli.phase = "exit" =>
        /\ cli.exit = 0 => FullySucceeded
        /\ (cli.arg = "--test" /\ cli.failed > 0) => cli.exit # 0
        /\ cli.arg = "--bogus" => cli.exit # 0
        /\ (cli.arg \in {NoArg, "--rss-only"} /\ cli.errors # {}) => cli.exit # 0

(***************************************************************************)
(* Order and stages of a run.                                              *)
(***************************************************************************)
\* a is b with some of its elements left out
RECURSIVE IsSubsequence(_, _)
IsSubsequence(a, b) ==
    IF a = <<>> THEN TRUE
    ELSE IF b = <<>> THEN FALSE
    ELSE IF Head(a) = Head(b) THEN IsSubsequence(Tail(a), Tail(b))
    ELSE IsSubsequence(a, Tail(b))

\* C32: Order preservation.  The batch fetch_articles returns is a
\* subsequence of the candidates in the order they were extracted from the
\* listing page, and so are the new candidates, the capped candidates and
\* the articles accepted so far: no run reorders candidates.
C32_OrderPreservation ==
    /\ \A p \in Procs :
          /\ IsSubsequence(run[p].new_all, run[p].ids)
          /\ IsSubsequence(run[p].cands, run[p].new_all)
          /\ IsSubsequence(IdSeq(run[p].new_articles), run[p].cands)
          /\ IsSubsequence(IdSeq(run[p].result), run[p].ids)
    /\ \A k \in 1..Len(history) : IsSubsequence(IdSeq(history[k].batch), history[k].ids)

C32_Witness ==
    \E p \in Procs :
        /\ pc[p] = "done" /\ run[p].persisted
        /\ Len(run[p].result) >= 3
        /\ IdSeq(run[p].result) # SubSeq(run[p].ids, 1, Len(run[p].result))
        /\ Len(history) = 1 /\ Len(history[1].batch) >= 2
        /\ history[1].source # run[p].adapter

\* the steps from stage to stage: listing and extraction (idle to dedup),
\* dedup, the candidates one by one (process) or at once, persist, done
StageSteps ==
    {<<"idle", "dedup">>, <<"idle", "done">>, <<"dedup", "persist">>,
     <<"dedup", "process">>, <<"dedup", "done">>, <<"persist", "done">>,
     <<"process", "done">>, <<"done", "idle">>}

\* the freshness filter has been applied to every capped candidate
FilterComplete(p) ==
    IF run[p].adapter = JA
    THEN pc[p] \in {"persist", "done"}
            /\ Len(run[p].new_articles) + Len(run[p].rejected) = Len(run[p].cands)
    ELSE pc[p] \in {"process", "done"} /\ run[p].i > Len(run[p].cands)

C33_NoEarlyWrite ==
    \A p \in Procs : (pc[p] # "idle" /\ run[p].writes # <<>>) => FilterComplete(p)

C33_Step ==
    \A p \in Procs :
        /\ pc'[p] # pc[p] => <<pc[p], pc'[p]>> \in StageSteps
        /\ (pc[p] = "process" /\ pc'[p] = "process") => run'[p].i >= run[p].i
        /\ pc[p] = "done" =>
               (seen_articles' = seen_articles /\ run'[p] \in {run[p], IdleRun})

\* C33: Stage ordering of a run.  The stages occur only in the order fetch
\* listing, extract, dedup, per-item detail fetch, freshness filter,
\* persist, done; no write to the store is issued before the freshness
\* filter has been applied to every capped candidate of the run; and a run
\* that reached its end (done or error) performs no further store write or
\* fetch.
C33_StageOrdering == [](C33_NoEarlyWrite) /\ [][C33_Step]_vars

(***************************************************************************)
(* Headlines and their URLs.                                               *)
(***************************************************************************)
\* the (headline, URL) pairs a run handed to update_headline_url
Rebound(writes) ==
    {writes[k].arg : k \in {j \in 1..Len(writes) : writes[j].op = "update_headline_url"}}

\* C34: Rebinding.  Once a landezine run has resolved a new headline h to
\* URL u and called update_headline_url(source, h, u), no later run against
\* a listing that shows the same headline flags h as new, and the store
\* does not hold a record for h and another for u.
C34_Rebinding ==
    /\ \A j \in 1..Len(history), k \in 1..Len(history) :
          (j < k /\ history[j].source = LZ /\ history[k].source = LZ) =>
              \A hu \in Rebound(history[j].writes) :
                  hu[1] \in Range(history[k].ids) => hu[1] \notin Range(history[k].new_all)
    /\ \A j \in 1..Len(history) :
          \A hu \in Rebound(history[j].writes) :
              ~(HasRow(seen_articles, LZ, hu[1]) /\ HasRow(seen_articles, LZ, hu[2]))

\* the articles of batch include every pair handed to update_headline_url
KeepsAccepted(batch, writes) ==
    \A hu \in Rebound(writes) :
        \E j \in 1..Len(batch) : batch[j].id = hu[1] /\ batch[j].link = hu[2]

Identifiers(db) == {r.article_url : r \in db}

StepOf(s) ==
    \/ /\ run' = run /\ pc' = pc
       /\ ret'.op \in {"mark_as_seen", "cleanup_old_articles"}
       /\ ret'.source = s
    \/ \E p \in Procs :
          /\ run'[p] # run[p] \/ pc'[p] # pc[p]
          /\ s \in {run[p].adapter, run'[p].adapter}

SameAnswers(t, before, after) ==
    LET xs == Identifiers(before) \cup Identifiers(after) \cup StoreUrls
    IN  /\ \A x \in xs : is_new_article(after, t, x) = is_new_article(before, t, x)
        /\ \A x, y \in xs :
               filter_new_articles(after, t, <<x, y, x>>)
                   = filter_new_articles(before, t, <<x, y, x>>)

C36_Step ==
    \A s \in Sources :
        StepOf(s) => \A t \in Sources \ {s} : SameAnswers(t, seen_articles, seen_articles')

C36_SourcePartitioning == [][C36_Step]_vars

\* mark_as_seen of japan_architects has recorded an identifier landezine
\* held already, and an adapter run has recorded its identifiers next to
\* those of the other source
C36_Witness ==
    /\ ret.op = "mark_as_seen" /\ ~ret.raised /\ ret.source = JA
    /\ \E u \in Range(ret.arg[1]) :
          /\ HasRow(ret.before, LZ, u) /\ ~HasRow(ret.before, JA, u)
          /\ HasRow(seen_articles, JA, u) /\ HasRow(seen_articles, LZ, u)
    /\ \E p \in Procs :
          /\ run[p].persisted /\ ~run[p].error
          /\ \E k \in 1..Len(run[p].ids) :
                /\ ~HasRow(run[p].before, run[p].adapter, run[p].ids[k])
                /\ HasRow(seen_articles, run[p].adapter, run[p].ids[k])
          /\ \E r \in seen_articles :
                r.source_id # run[p].adapter /\ r.article_url \in Identifiers(run[p].before)

(***************************************************************************)
(* C37  Downstream pipeline step containment: in run_pipeline with a       *)
(* non-empty feed, a failure of the scraping step, of one article's        *)
(* summarization, of the R2 save or of the Telegram send does not abort    *)
(* the run: every article is summarized, the R2 save and the Telegram send *)
(* are attempted, the process ends with exit code 0, and the digest handed *)
(* to Telegram has exactly one entry per fetched article, in feed order.   *)
(***************************************************************************)
ContainedSteps == {"scrape", "summary", "r2", "telegram"}

InPipeline == cli.arg \in {NoArg, "--rss-only"} /\ cli.feed # <<>>

C38_PagesReleased ==
    res.phase = "returned" =>
        /\ res.page # "none" => res.page_closes = 1
        /\ res.context # "none" => res.context_closes = 1

C38_ScraperReleased == cli.phase = "exit" => cli.scraper # "open"

C38_TrackerCleared ==
    res.closes > 0 => (res.tracker = "none" /\ res.tracker_closes <= 1)

C38_ResourceRelease ==
    /\ C38_PagesReleased
    /\ C38_ScraperReleased
    /\ C38_TrackerCleared

(***************************************************************************)
(* C39  Connection lifecycle: across any sequence of connect, close and    *)
(* store operations (a connect whose schema initialization fails           *)
(* included), connect on an open pool creates no second pool and changes   *)
(* nothing, an operation issued without pool connects before it queries,   *)
(* and whenever a query has run on the pool the schema is initialized.     *)
(***************************************************************************)
QueryRan ==
    /\ ret.connected
    /\ \/ ret.op \in {"is_new_article", "cleanup_old_articles", "get_stats",
                      "get_recent_articles"}
       \/ ret.op = "filter_new_articles" /\ ret.arg # <<>>
       \/ ret.op = "mark_as_seen" /\ ~ret.raised /\ ret.arg[1] # <<>>

C39_SchemaBeforeQuery == QueryRan => initialized

\* a step of the tracker leaves the clock alone
C39_Step ==
    /\ (now' = now /\ pool /\ ret'.op = "connect") =>
           /\ ~ret'.raised
           /\ UNCHANGED <<pool, initialized, faults, seen_articles>>
    /\ (now' = now /\ ~pool /\ ret'.connected) => pool'
    /\ ret'.op = "close" => ~pool'

C39_ConnectionLifecycle == [](C39_SchemaBeforeQuery) /\ [][C39_Step]_vars

(***************************************************************************)
(* C40  mark_as_seen input and per-item errors: a call whose guids list    *)
(* has another length than urls raises and inserts or updates nothing; a   *)
(* call with empty urls returns 0 and leaves the table as it is; a         *)
(* statement that fails leaves the table and the count as they were, so a  *)
(* URL whose statements all failed is recorded no more than before and is  *)
(* not counted, while every other URL of the batch is recorded.            *)
(***************************************************************************)
RowsOf(db, s, u) == {r \in db : r.source_id = s /\ r.article_url = u}

C40_InputAndItemErrors ==
    LET t == task[1]
        passes == IF t.phase = "idle" THEN {} ELSE 1..(t.i - 1)
        done == passes \ t.failed
    IN  /\ (t.phase = "done" /\ t.raised) =>
               /\ Len(t.urls) # Len(t.guids)
               /\ seen_articles = MarkStore
               /\ t.added = 0
        /\ (t.phase = "done" /\ ~t.raised /\ t.urls # <<>>) =>
               Len(t.urls) = Len(t.guids) /\ t.i = Len(t.urls) + 1
        /\ (t.phase = "done" /\ t.urls = <<>>) =>
               ~t.raised /\ t.added = 0 /\ seen_articles = MarkStore
        /\ (t.phase # "idle" /\ ~t.raised /\ t.urls # <<>>) =>
               /\ t.failed \subseteq passes
               /\ t.added = Cardinality(done)
               /\ \A k \in done : HasRow(seen_articles, t.source, t.urls[k])
               /\ \A k \in t.failed :
                      (\A j \in passes : t.urls[j] = t.urls[k] => j \in t.failed) =>
                          RowsOf(seen_articles, t.source, t.urls[k])
                              = RowsOf(MarkStore, t.source, t.urls[k])
               /\ \A r \in MarkStore :
                      (r.source_id # t.source \/ r.article_url \notin Range(t.urls)) =>
                          r \in seen_articles

\* the statement of the second URL of a batch of three has failed: that URL
\* is not recorded, the URL before and after it is, and two are counted
C40_Witness ==
    LET t == task[1]
    IN  /\ t.phase = "done" /\ ~t.raised
        /\ t.source = JA /\ t.urls = <<U2, U1, U2>> /\ t.failed = {2}
        /\ ~HasRow(seen_articles, JA, U1)
        /\ HasRow(seen_articles, JA, U2)
        /\ t.added = 2
====
